---- MODULE Spec2Model ----
(***************************************************************************)
(* Verification model of the configuration resolver                        *)
(* (services/config_manager.py), the trace sanitizer                       *)
(* (utils/history_cleaner.py), the element extractor, the code stream and  *)
(* the provider selection (services/code_generator.py), the browser task   *)
(* (services/browser_task_runner.py), and the fence stripping, the         *)
(* sidebar commit and the submission flow of app.py.                       *)
(*                                                                         *)
(* Python values.  A str is a sequence of one-character strings, so that   *)
(* strip(), urlparse() and str() are computed character by character.      *)
(* None and a non-str object (an int) are one-element sequences holding a  *)
(* token that is not a character.  A dict is a function whose DOMAIN is    *)
(* the set of keys present.                                                *)
(***************************************************************************)
EXTENDS Integers, Sequences, FiniteSets, TLC

VARIABLES environ, _instance, heap, holder, written, last, fs, gen, code,
          upd, task, ui

vars ==
  <<environ, _instance, heap, holder, written, last, fs, gen, code,
    upd, task, ui>>

-----------------------------------------------------------------------------
(* Bounds *)

MaxObjects == 3
MaxSettings == 2
MaxSteps == 2
MaxElements == 2
MaxFragments == 2
MaxTextLen == 4
MaxCalls == 1
MaxRuns == 2

-----------------------------------------------------------------------------
(* Python values *)

None == <<"<None>">>
Int7 == <<"<int 7>">>

str(v) ==
  IF v = None THEN <<"N", "o", "n", "e">>
  ELSE IF v = Int7 THEN <<"7">>
  ELSE v

Truthy(v) == v # None /\ v # <<>>

Whitespace == {" ", "\t", "\n", "\r"}

RECURSIVE lstrip(_)
lstrip(s) ==
  IF s # <<>> /\ Head(s) \in Whitespace THEN lstrip(Tail(s)) ELSE s

RECURSIVE rstrip(_)
rstrip(s) ==
  IF s # <<>> /\ s[Len(s)] \in Whitespace
  THEN rstrip(SubSeq(s, 1, Len(s) - 1))
  ELSE s

(* a strip() that was left out *)
strip_omitted(s) == s

strip(s) == rstrip(lstrip(s))

DictGet(d, k, default) == IF k \in DOMAIN d THEN d[k] ELSE default

DictSet(d, k, v) == [x \in DOMAIN d \cup {k} |-> IF x = k THEN v ELSE d[x]]

EmptyDict == <<>>

-----------------------------------------------------------------------------
(* Configuration keys and the values drawn for them *)

MODEL_NAME == "MODEL_NAME"
CODE_GENERATION_PERSONA == "CODE_GENERATION_PERSONA"
AZURE_OPENAI_ENDPOINT == "AZURE_OPENAI_ENDPOINT"
AZURE_DEPLOYMENT_NAME == "AZURE_DEPLOYMENT_NAME"

Keys == {MODEL_NAME, CODE_GENERATION_PERSONA, AZURE_OPENAI_ENDPOINT,
         AZURE_DEPLOYMENT_NAME}

PlainKeys == {MODEL_NAME}

FallbackPersona ==
  <<"p", "l", "a", "y", "w", "r", "i", "g", "h", "t", "_", "t", "s", "_",
    "c", "o", "d", "e">>

Gpt4 == <<"g", "p", "t", "-", "4">>
Gpt35 == <<"g", "p", "t", "-", "3">>
Blank == <<" ", "\t">>
Cypress == <<"c", "y">>
Deploy1 == <<"d", "1">>
UrlWithPath == <<"s", ":", "/", "/", "h", "/", "p", "?", "q">>
UrlBase == <<"s", ":", "/", "/", "h">>
HostOnly == <<"h", ".", "c">>

ValuesOf(k) ==
  CASE k = MODEL_NAME -> {Gpt4, Gpt35}
    [] k = CODE_GENERATION_PERSONA -> {<<>>, Cypress}
    [] k = AZURE_OPENAI_ENDPOINT -> {UrlWithPath, HostOnly}
    [] k = AZURE_DEPLOYMENT_NAME -> {<<>>, Deploy1}

(* The keys and values of the mappings passed to update_from_ui *)
UiKeys == {MODEL_NAME, CODE_GENERATION_PERSONA, AZURE_DEPLOYMENT_NAME}

UiValuesOf(k) ==
  CASE k = MODEL_NAME -> {Gpt4, Int7, None}
    [] k = CODE_GENERATION_PERSONA -> {<<>>, Cypress, None}
    [] k = AZURE_DEPLOYMENT_NAME -> {Deploy1, None}

Defaults == {None, Blank, Gpt35}

(* The .env file found by find_dotenv(), and the environment the process
   is started in. *)
DotEnv == [k \in {AZURE_OPENAI_ENDPOINT} |-> UrlWithPath]

StartEnvironments ==
  { EmptyDict,
    [k \in {MODEL_NAME} |-> Gpt35],
    [k \in {CODE_GENERATION_PERSONA, AZURE_DEPLOYMENT_NAME} |->
       IF k = CODE_GENERATION_PERSONA THEN Blank ELSE Deploy1] }

load_dotenv(env) ==
  [k \in DOMAIN env \cup DOMAIN DotEnv |->
     IF k \in DOMAIN DotEnv THEN DotEnv[k] ELSE env[k]]

-----------------------------------------------------------------------------
(* urllib.parse.urlparse, as far as scheme and netloc *)

SchemeChars == {"s", "h", "p", "q", "c", "S", ".", "+", "-"}
AlphaChars == {"s", "h", "p", "q", "c", "S"}
UnsafeUrlChars == {"\t", "\n", "\r"}
NetlocEnd == {"/", "?", "#"}

lower(c) == IF c = "S" THEN "s" ELSE c

LowerStr(s) == [i \in 1..Len(s) |-> lower(s[i])]

RECURSIVE RemoveChars(_, _)
RemoveChars(s, cs) ==
  IF s = <<>> THEN <<>>
  ELSE IF Head(s) \in cs THEN RemoveChars(Tail(s), cs)
  ELSE <<Head(s)>> \o RemoveChars(Tail(s), cs)

(* index of the first element of s in cs, 0 when there is none *)
Find(s, cs) ==
  IF \E i \in 1..Len(s) : s[i] \in cs
  THEN CHOOSE i \in 1..Len(s) :
         s[i] \in cs /\ \A j \in 1..(i - 1) : s[j] \notin cs
  ELSE 0

urlparse(url0) ==
  LET url1 == RemoveChars(lstrip(url0), UnsafeUrlChars)
      i == Find(url1, {":"})
      hasScheme == /\ i > 1
                   /\ url1[1] \in AlphaChars
                   /\ \A j \in 1..(i - 1) : url1[j] \in SchemeChars
      scheme == IF hasScheme THEN LowerStr(SubSeq(url1, 1, i - 1)) ELSE <<>>
      url2 == IF hasScheme THEN SubSeq(url1, i + 1, Len(url1)) ELSE url1
      hasNetloc == Len(url2) >= 2 /\ url2[1] = "/" /\ url2[2] = "/"
      rest == IF hasNetloc THEN SubSeq(url2, 3, Len(url2)) ELSE <<>>
      e == Find(rest, NetlocEnd)
      netloc == IF e = 0 THEN rest ELSE SubSeq(rest, 1, e - 1)
      bad == \/ (\E j \in 1..Len(netloc) : netloc[j] = "[")
                  /\ ~(\E j \in 1..Len(netloc) : netloc[j] = "]")
             \/ (\E j \in 1..Len(netloc) : netloc[j] = "]")
                  /\ ~(\E j \in 1..Len(netloc) : netloc[j] = "[")
  IN [raises |-> bad, scheme |-> scheme, netloc |-> netloc]

(* urlparse of a non-str raises, which the except clause catches *)
_clean_azure_endpoint(endpoint) ==
  IF ~Truthy(endpoint) THEN endpoint
  ELSE IF endpoint = Int7 THEN endpoint
  ELSE LET parsed == urlparse(endpoint)
       IN IF parsed.raises THEN endpoint
          ELSE parsed.scheme \o <<":", "/", "/">> \o parsed.netloc

-----------------------------------------------------------------------------
(* ConfigManager *)

getenv(env, key, default) == DictGet(env, key, default)

(* get_config that forgets the environment layer *)
get_config_skips_environment(rc, env, key, default) ==
  LET v0 == DictGet(rc, key, default)
      v1 == IF key = CODE_GENERATION_PERSONA
               /\ (~Truthy(v0) \/ strip(v0) = <<>>)
            THEN FallbackPersona
            ELSE v0
      v2 == IF key = AZURE_OPENAI_ENDPOINT
            THEN _clean_azure_endpoint(v1)
            ELSE v1
      deployment_name == DictGet(rc, AZURE_DEPLOYMENT_NAME, None)
  IN IF key = AZURE_DEPLOYMENT_NAME
     THEN IF Truthy(deployment_name)
          THEN deployment_name
          ELSE DictGet(rc, MODEL_NAME, default)
     ELSE v2

(* get_config whose deployment-name fallback is the caller's default *)
get_config_without_model_fallback(rc, env, key, default) ==
  LET v0 == DictGet(rc, key, getenv(env, key, default))
      v1 == IF key = CODE_GENERATION_PERSONA
               /\ (~Truthy(v0) \/ strip(v0) = <<>>)
            THEN FallbackPersona
            ELSE v0
      v2 == IF key = AZURE_OPENAI_ENDPOINT
            THEN _clean_azure_endpoint(v1)
            ELSE v1
      deployment_name ==
        DictGet(rc, AZURE_DEPLOYMENT_NAME,
                getenv(env, AZURE_DEPLOYMENT_NAME, None))
  IN IF key = AZURE_DEPLOYMENT_NAME
     THEN IF Truthy(deployment_name) THEN deployment_name ELSE default
     ELSE v2

get_config(rc, env, key, default) ==
  LET v0 == DictGet(rc, key, getenv(env, key, default))
      v1 == IF key = CODE_GENERATION_PERSONA
               /\ (~Truthy(v0) \/ strip(v0) = <<>>)
            THEN FallbackPersona
            ELSE v0
      v2 == IF key = AZURE_OPENAI_ENDPOINT
            THEN _clean_azure_endpoint(v1)
            ELSE v1
      deployment_name ==
        DictGet(rc, AZURE_DEPLOYMENT_NAME,
                getenv(env, AZURE_DEPLOYMENT_NAME, None))
  IN IF key = AZURE_DEPLOYMENT_NAME
     THEN IF Truthy(deployment_name)
          THEN deployment_name
          ELSE DictGet(rc, MODEL_NAME, getenv(env, MODEL_NAME, default))
     ELSE v2

(* set_config that leaves os.environ alone *)
set_config_without_mirror(st, key, value) ==
  [rc |-> DictSet(st.rc, key, value), env |-> st.env]

(* set_config on the pair (runtime overlay, environment) *)
set_config(st, key, value) ==
  [rc |-> DictSet(st.rc, key, value), env |-> DictSet(st.env, key, str(value))]

(* update_from_ui that tests "if value:" and so skips empty strings *)
RECURSIVE update_from_ui_if_truthy(_, _)
update_from_ui_if_truthy(st, settings) ==
  IF settings = <<>> THEN st
  ELSE LET key == Head(settings)[1]
           value == Head(settings)[2]
       IN update_from_ui_if_truthy(
            IF Truthy(value)
            THEN [rc |-> DictSet(st.rc, key, str(value)),
                  env |-> DictSet(st.env, key, str(value))]
            ELSE st,
            Tail(settings))

(* settings is a dict in insertion order: a sequence of <<key, value>> *)
RECURSIVE update_from_ui(_, _)
update_from_ui(st, settings) ==
  IF settings = <<>> THEN st
  ELSE LET key == Head(settings)[1]
           value == Head(settings)[2]
       IN update_from_ui(
            IF value # None THEN set_config(st, key, str(value)) ELSE st,
            Tail(settings))

(* cls._instance is 0 for None, otherwise an index into heap *)
ConfigManager__new__(inst, hp) ==
  IF inst = 0
  THEN [inst |-> Len(hp) + 1,
        heap |-> Append(hp, [_runtime_config |-> EmptyDict,
                             _initialized |-> FALSE])]
  ELSE [inst |-> inst, heap |-> hp]

(* __init__ without the _initialized guard *)
ConfigManager__init__unguarded(hp, env, self) ==
  [heap |-> [hp EXCEPT ![self] = [_runtime_config |-> EmptyDict,
                                  _initialized |-> TRUE]],
   env |-> load_dotenv(env)]

ConfigManager__init__(hp, env, self) ==
  IF ~hp[self]._initialized
  THEN [heap |-> [hp EXCEPT ![self] = [_runtime_config |-> EmptyDict,
                                       _initialized |-> TRUE]],
        env |-> load_dotenv(env)]
  ELSE [heap |-> hp, env |-> env]

-----------------------------------------------------------------------------
(* The holders of a ConfigManager and the calls they make *)

App == "app"
Runner == "BrowserTaskRunner"
Generator == "CodeGenerator"
Holders == {App, Runner, Generator}

UiEntries == {<<k, v>> : k \in UiKeys, v \in {None, Int7, Gpt4, <<>>, Cypress, Deploy1}}

SettingsOfLen(n) ==
  {s \in [1..n -> UiEntries] :
     /\ \A i \in 1..n : s[i][2] \in UiValuesOf(s[i][1])
     /\ \A i, j \in 1..n : i # j => s[i][1] # s[j][1]}

Settings ==
  UNION {SettingsOfLen(n) : n \in 0..(IF MaxSettings < Cardinality(UiKeys)
                                      THEN MaxSettings
                                      ELSE Cardinality(UiKeys))}

NoCall == [op |-> "start"]

(* no code generation is running and no generated text is shown *)
NoGen == [pc |-> 0]
NoCode == <<>>

(* no update_from_ui is in flight, no browser task and no page *)
NoUpdate == [pc |-> 0]
NoTask == [pc |-> 0]
NoPage == [pc |-> 0]

Idle == UNCHANGED <<fs, gen, code, upd, task, ui>>

RuntimeOf(h) == heap[holder[h]]._runtime_config

(* The process before any ConfigManager() *)
InitProcess ==
  /\ environ \in StartEnvironments
  /\ _instance = 0
  /\ heap = <<>>
  /\ holder = [h \in Holders |-> 0]
  /\ written = EmptyDict
  /\ last = NoCall
  /\ fs = EmptyDict
  /\ gen = NoGen
  /\ code = NoCode
  /\ upd = NoUpdate
  /\ task = NoTask
  /\ ui = NoPage

(* The process after config_manager = ConfigManager() at app.py:119 *)
InitApp ==
  /\ \E e \in StartEnvironments :
       LET n == ConfigManager__new__(0, <<>>)
           i == ConfigManager__init__(n.heap, e, n.inst)
       IN /\ _instance = n.inst
          /\ heap = i.heap
          /\ environ = i.env
          /\ holder = [h \in Holders |-> IF h = App THEN n.inst ELSE 0]
  /\ written = EmptyDict
  /\ last = NoCall
  /\ fs = EmptyDict
  /\ gen = NoGen
  /\ code = NoCode
  /\ upd = NoUpdate
  /\ task = NoTask
  /\ ui = NoPage

(* ConfigManager() at app.py:119, code_generator.py:26 and
   browser_task_runner.py:55; BrowserTaskRunner.__init__ reloads the .env
   file over the environment first. *)
Construct(h) ==
  /\ Len(heap) < MaxObjects
  /\ LET env0 == IF h = Runner THEN load_dotenv(environ) ELSE environ
         n == ConfigManager__new__(_instance, heap)
         i == ConfigManager__init__(n.heap, env0, n.inst)
     IN /\ _instance' = n.inst
        /\ heap' = i.heap
        /\ environ' = i.env
        /\ holder' = [holder EXCEPT ![h] = n.inst]
        /\ last' = [op |-> "ConfigManager", holder |-> h]
  /\ UNCHANGED written
  /\ Idle

SetConfig(h, key, value) ==
  /\ holder[h] # 0
  /\ LET self == holder[h]
         st == set_config([rc |-> heap[self]._runtime_config, env |-> environ],
                          key, value)
     IN /\ heap' = [heap EXCEPT ![self]._runtime_config = st.rc]
        /\ environ' = st.env
  /\ written' = DictSet(written, key, value)
  /\ last' = [op |-> "set_config", holder |-> h, key |-> key, value |-> value]
  /\ UNCHANGED <<_instance, holder>>
  /\ Idle

(* the values written by the entries of settings, latest last *)
RECURSIVE WrittenBy(_, _)
WrittenBy(w, settings) ==
  IF settings = <<>> THEN w
  ELSE WrittenBy(IF Head(settings)[2] # None
                 THEN DictSet(w, Head(settings)[1], str(Head(settings)[2]))
                 ELSE w,
                 Tail(settings))

(* update_from_ui ends with print_config_snapshot, which only reads *)
UpdateFromUi(h, settings) ==
  /\ holder[h] # 0
  /\ LET self == holder[h]
         st == update_from_ui([rc |-> heap[self]._runtime_config,
                               env |-> environ], settings)
     IN /\ heap' = [heap EXCEPT ![self]._runtime_config = st.rc]
        /\ environ' = st.env
  /\ written' = WrittenBy(written, settings)
  /\ last' = [op |-> "update_from_ui", holder |-> h, settings |-> settings]
  /\ UNCHANGED <<_instance, holder>>
  /\ Idle

GetConfig(h, key, default) ==
  /\ holder[h] # 0
  /\ last' = [op |-> "get_config", holder |-> h, key |-> key,
              default |-> default,
              result |-> get_config(heap[holder[h]]._runtime_config, environ,
                                    key, default)]
  /\ UNCHANGED <<environ, _instance, heap, holder, written>>
  /\ Idle

(* The resolver as the UI script uses it *)
Next ==
  \/ \E k \in Keys : \E v \in ValuesOf(k) : SetConfig(App, k, v)
  \/ \E s \in Settings : UpdateFromUi(App, s)
  \/ \E k \in Keys, d \in Defaults : GetConfig(App, k, d)

Spec == InitApp /\ [][Next]_vars

(* The three holders constructing and sharing the resolver *)
HolderKeys == {MODEL_NAME, AZURE_OPENAI_ENDPOINT}

NextHolders ==
  \/ \E h \in Holders : Construct(h)
  \/ \E h \in Holders, k \in HolderKeys : \E v \in ValuesOf(k) :
       SetConfig(h, k, v)
  \/ \E h \in Holders, k \in HolderKeys : GetConfig(h, k, None)

SpecHolders == InitProcess /\ [][NextHolders]_vars

-----------------------------------------------------------------------------
(* update_from_ui running in one thread while another thread reads.  The
   resolver has no lock, and the interpreter may switch threads between any
   two iterations of the loop of lines 63-65, so that each iteration is a
   step of its own here.  upd holds the call in flight: the mapping, the
   index pc of the entry the loop is at, the overlay and the environment
   the call found, and what the reader has read since the call began. *)

(* lines 63-65 for the entry at index i, leaving the loop after the first
   entry *)
update_from_ui_iteration_once(st, settings, i) ==
  IF i = 1 /\ settings[i][2] # None
  THEN set_config(st, settings[i][1], str(settings[i][2]))
  ELSE st

(* lines 63-65 for the entry at index i *)
update_from_ui_iteration(st, settings, i) ==
  IF settings[i][2] # None
  THEN set_config(st, settings[i][1], str(settings[i][2]))
  ELSE st

(* the process after config_manager = ConfigManager(), with a reader that
   is either a second thread or the caller of update_from_ui itself *)
InitThreads ==
  /\ \E e \in StartEnvironments :
       LET n == ConfigManager__new__(0, <<>>)
           i == ConfigManager__init__(n.heap, e, n.inst)
       IN /\ _instance = n.inst
          /\ heap = i.heap
          /\ environ = i.env
          /\ holder = [h \in Holders |-> IF h = App THEN n.inst ELSE 0]
          /\ \E c \in BOOLEAN :
               upd = [pc |-> 0, running |-> FALSE, calls |-> 0,
                      concurrent |-> c, settings |-> <<>>,
                      before |-> [rc |-> EmptyDict, env |-> i.env],
                      seen |-> EmptyDict]
  /\ written = EmptyDict
  /\ last = NoCall
  /\ fs = EmptyDict
  /\ gen = NoGen
  /\ code = NoCode
  /\ task = NoTask
  /\ ui = NoPage

ThreadsIdle == UNCHANGED <<_instance, holder, fs, gen, code, task, ui>>

(* update_from_ui(settings) is called: line 62 *)
UpdateCall(settings) ==
  /\ ~upd.running
  /\ upd.calls < MaxCalls
  /\ upd' = [upd EXCEPT !.pc = 1, !.running = TRUE, !.calls = @ + 1,
                        !.settings = settings,
                        !.before = [rc |-> RuntimeOf(App), env |-> environ],
                        !.seen = EmptyDict]
  /\ UNCHANGED <<environ, heap, written, last>>
  /\ ThreadsIdle

(* one iteration of the loop *)
UpdateIteration ==
  /\ upd.running
  /\ upd.pc <= Len(upd.settings)
  /\ LET st == update_from_ui_iteration(
                 [rc |-> RuntimeOf(App), env |-> environ],
                 upd.settings, upd.pc)
     IN /\ heap' = [heap EXCEPT ![holder[App]]._runtime_config = st.rc]
        /\ environ' = st.env
  /\ written' = WrittenBy(written, <<upd.settings[upd.pc]>>)
  /\ upd' = [upd EXCEPT !.pc = @ + 1]
  /\ UNCHANGED last
  /\ ThreadsIdle

(* the loop is over: print_config_snapshot, which only reads, and return *)
UpdateReturn ==
  /\ upd.running
  /\ upd.pc > Len(upd.settings)
  /\ upd' = [upd EXCEPT !.running = FALSE]
  /\ UNCHANGED <<environ, heap, written, last>>
  /\ ThreadsIdle

(* get_config(key) by the reader; the caller of update_from_ui cannot read
   before its call has returned *)
ThreadGetConfig(key) ==
  /\ upd.concurrent \/ ~upd.running
  /\ upd' = [upd EXCEPT !.seen = DictSet(@, key,
                                         get_config(RuntimeOf(App), environ,
                                                    key, None))]
  /\ UNCHANGED <<environ, heap, written, last>>
  /\ ThreadsIdle

NextThreads ==
  \/ \E s \in Settings : UpdateCall(s)
  \/ UpdateIteration
  \/ UpdateReturn
  \/ \E k \in UiKeys : ThreadGetConfig(k)

SpecThreads == InitThreads /\ [][NextThreads]_vars

-----------------------------------------------------------------------------
(* JSON documents and HistoryCleaner.clean_history *)

(* A parsed JSON value: its type t, and the text s of a str, the dict o of
   an object (a function on the keys present) or the list a of an array. *)
JNull == [t |-> "null", s |-> "", o |-> <<>>, a |-> <<>>]
JStr(x) == [t |-> "str", s |-> x, o |-> <<>>, a |-> <<>>]
JObj(f) == [t |-> "object", s |-> "", o |-> f, a |-> <<>>]
JArr(q) == [t |-> "array", s |-> "", o |-> <<>>, a |-> q]

IsDict(j) == j.t = "object"

(* Python truthiness of a parsed JSON value *)
JTruthy(j) ==
  CASE j.t = "null" -> FALSE
    [] j.t = "str" -> j.s # ""
    [] j.t = "object" -> DOMAIN j.o # {}
    [] j.t = "array" -> Len(j.a) > 0

(* A file holds text: the JSON document it spells and the layout it is
   written in, or text that is no JSON document at all.  json.load forgets
   the layout, json.dump(indent=2) writes its own. *)
Garbage == [layout |-> "garbage", data |-> JNull]

(* json.load returns normally; otherwise it raises json.JSONDecodeError *)
json_parses(file) == file.layout # "garbage"

json_load(file) == file.data

json_dump(data) == [layout |-> "indent2", data |-> data]

CoordinateKeys == {"page_coordinates", "viewport_coordinates", "viewport_info"}

(* lines 44-47, with "del" in place of the assignment *)
clean_screenshot_deletes_key(state) ==
  IF "screenshot" \in DOMAIN state /\ JTruthy(state["screenshot"])
  THEN [k \in DOMAIN state \ {"screenshot"} |-> state[k]]
  ELSE state

(* lines 44-47, on the dict entry['state'] *)
clean_screenshot(state) ==
  IF "screenshot" \in DOMAIN state /\ JTruthy(state["screenshot"])
  THEN [state EXCEPT !["screenshot"] = JStr("")]
  ELSE state

(* lines 52-58 without the "in element" tests *)
clean_element_adds_keys(element) ==
  IF JTruthy(element) /\ IsDict(element)
  THEN JObj([k \in DOMAIN element.o \cup CoordinateKeys |->
               IF k \in CoordinateKeys THEN JObj(<<>>) ELSE element.o[k]])
  ELSE element

(* lines 52-58 *)
clean_element(element) ==
  IF JTruthy(element) /\ IsDict(element)
  THEN JObj([k \in DOMAIN element.o |->
               IF k \in CoordinateKeys THEN JObj(<<>>) ELSE element.o[k]])
  ELSE element

(* lines 50-51, on entry['state']: iterating None raises TypeError *)
clean_interacted(state) ==
  IF "interacted_element" \notin DOMAIN state
  THEN [raised |-> FALSE, state |-> state]
  ELSE IF state["interacted_element"].t # "array"
  THEN [raised |-> TRUE, state |-> state]
  ELSE [raised |-> FALSE,
        state |-> [state EXCEPT !["interacted_element"] =
                     JArr([i \in 1..Len(@.a) |-> clean_element(@.a[i])])]]

(* one pass of the loop body, lines 42-59; "in" on a state or an entry that
   is None raises TypeError *)
clean_entry(entry) ==
  IF ~IsDict(entry) THEN [raised |-> TRUE, entry |-> entry]
  ELSE IF "state" \notin DOMAIN entry.o THEN [raised |-> FALSE, entry |-> entry]
  ELSE IF ~IsDict(entry.o["state"]) THEN [raised |-> TRUE, entry |-> entry]
  ELSE LET r == clean_interacted(clean_screenshot(entry.o["state"].o))
       IN [raised |-> r.raised,
           entry |-> JObj([entry.o EXCEPT !["state"] = JObj(r.state)])]

(* the loop with a break after the first entry whose screenshot was
   cleared *)
RECURSIVE clean_entries_stops_early(_)
clean_entries_stops_early(history) ==
  IF history = <<>> THEN [raised |-> FALSE, history |-> <<>>]
  ELSE LET h == clean_entry(Head(history))
           t == IF h.entry # Head(history)
                THEN [raised |-> FALSE, history |-> Tail(history)]
                ELSE clean_entries_stops_early(Tail(history))
       IN [raised |-> h.raised \/ t.raised,
           history |-> <<h.entry>> \o t.history]

(* the loop of line 41 *)
RECURSIVE clean_entries(_)
clean_entries(history) ==
  IF history = <<>> THEN [raised |-> FALSE, history |-> <<>>]
  ELSE LET h == clean_entry(Head(history))
           t == clean_entries(Tail(history))
       IN [raised |-> h.raised \/ t.raised,
           history |-> <<h.entry>> \o t.history]

(* lines 36-41 and 65, writing only the history key of the document *)
clean_document_keeps_only_history(data) ==
  IF ~IsDict(data)
  THEN [raised |-> TRUE, error |-> "TypeError", data |-> data]
  ELSE IF "history" \notin DOMAIN data.o
  THEN [raised |-> TRUE, error |-> "KeyError", data |-> data]
  ELSE IF data.o["history"].t \in {"object", "str"}
  THEN [raised |-> "state" \in DOMAIN data.o["history"].o,
        error |-> IF "state" \in DOMAIN data.o["history"].o
                  THEN "TypeError" ELSE "",
        data |-> data]
  ELSE IF data.o["history"].t # "array"
  THEN [raised |-> TRUE, error |-> "TypeError", data |-> data]
  ELSE LET r == clean_entries(data.o["history"].a)
       IN [raised |-> r.raised,
           error |-> IF r.raised THEN "TypeError" ELSE "",
           data |-> JObj([k \in {"history"} |-> JArr(r.history)])]

(* lines 36-41 and 65 on the parsed document.  history_data['history']
   raises KeyError when the key is missing and TypeError when the document
   is no dict; the for loop raises TypeError on a history that is None,
   walks the keys of a history that is a dict (a key "state" then raises
   TypeError at line 44, 'screenshot' in entry['state'] indexing a str) and
   the characters of one that is a str. *)
clean_document(data) ==
  IF ~IsDict(data)
  THEN [raised |-> TRUE, error |-> "TypeError", data |-> data]
  ELSE IF "history" \notin DOMAIN data.o
  THEN [raised |-> TRUE, error |-> "KeyError", data |-> data]
  ELSE IF data.o["history"].t \in {"object", "str"}
  THEN [raised |-> "state" \in DOMAIN data.o["history"].o,
        error |-> IF "state" \in DOMAIN data.o["history"].o
                  THEN "TypeError" ELSE "",
        data |-> data]
  ELSE IF data.o["history"].t # "array"
  THEN [raised |-> TRUE, error |-> "TypeError", data |-> data]
  ELSE LET r == clean_entries(data.o["history"].a)
       IN [raised |-> r.raised,
           error |-> IF r.raised THEN "TypeError" ELSE "",
           data |-> JObj([data.o EXCEPT !["history"] = JArr(r.history)])]

(* The traces drawn as input *)
Absent == [t |-> "absent", s |-> "", o |-> <<>>, a |-> <<>>]

Point == JObj([x |-> JStr("1"), y |-> JStr("2")])

ElementFull ==
  JObj([tag_name |-> JStr("a"), xpath |-> JStr("/a"),
        page_coordinates |-> Point, viewport_coordinates |-> Point,
        viewport_info |-> JObj([width |-> JStr("8")])])

ElementPartial ==
  JObj([tag_name |-> JStr("b"), css_selector |-> JStr("b.c"),
        page_coordinates |-> JObj(<<>>), viewport_info |-> Point])

ElementOptions == {JNull, JStr("x"), ElementFull, ElementPartial}

ElementLists ==
  UNION {[1..n -> ElementOptions] : n \in 0..MaxElements}

MkState(screenshot, interacted) ==
  LET ks == {"url"}
              \cup (IF screenshot = Absent THEN {} ELSE {"screenshot"})
              \cup (IF interacted = Absent THEN {}
                    ELSE {"interacted_element"})
  IN JObj([k \in ks |->
             CASE k = "url" -> JStr("http://u")
               [] k = "screenshot" -> screenshot
               [] k = "interacted_element" -> interacted])

MkEntry(state) ==
  IF state = Absent THEN JObj([result |-> JStr("done")])
  ELSE JObj([result |-> JStr("done"), state |-> state])

ScreenshotOptions == {Absent, JNull, JStr(""), JStr("png")}

EntryOptions ==
  {MkEntry(Absent), MkEntry(JNull)}
    \cup {MkEntry(MkState(sc, Absent)) : sc \in ScreenshotOptions}
    \cup {MkEntry(MkState(Absent, JNull))}
    \cup {MkEntry(MkState(JStr("png"), JArr(l))) : l \in ElementLists}

Meta == JObj([agent |-> JStr("browser-use")])

(* the steps drawn beside the one step of a trace that is drawn from all
   the options *)
PlainEntryOptions ==
  {MkEntry(MkState(Absent, Absent)), MkEntry(MkState(JStr("png"), Absent))}

(* the histories of up to MaxSteps steps with one step drawn from any and
   the others from plain *)
Histories(any, plain) ==
  {<<>>} \cup
  UNION {UNION {{[j \in 1..n |-> IF j = i THEN e ELSE h[j]] :
                   e \in any, h \in [1..n -> plain]} : i \in 1..n} :
           n \in 1..MaxSteps}

Traces ==
  {JObj([meta |-> Meta, history |-> JArr(h)]) :
     h \in Histories(EntryOptions, PlainEntryOptions)}

(* documents that are JSON but hold no history list *)
NoHistory == JObj([meta |-> Meta])
NullHistory == JObj([meta |-> Meta, history |-> JNull])
DictHistory == JObj([meta |-> Meta, history |-> JObj(<<>>)])

Documents == Traces \cup {NoHistory, NullHistory, DictHistory}

Layouts == {"compact", "indent2"}

Files == {[layout |-> l, data |-> d] : l \in Layouts, d \in Documents}
           \cup {Garbage}

RawPath == "history_1.json"
CleanedPath == "cleaned_history_1.json"
RecleanedPath == "cleaned_history_2.json"

CleanCalls ==
  {<<RawPath, CleanedPath>>, <<CleanedPath, RecleanedPath>>,
   <<RawPath, RawPath>>}

InitClean ==
  /\ environ = EmptyDict
  /\ _instance = 0
  /\ heap = <<>>
  /\ holder = [h \in Holders |-> 0]
  /\ written = EmptyDict
  /\ last = NoCall
  /\ gen = NoGen
  /\ code = NoCode
  /\ upd = NoUpdate
  /\ task = NoTask
  /\ ui = NoPage
  /\ \E file \in Files : fs = [p \in {RawPath} |-> file]

(* lines 35-65 with the input renamed to the output path before the
   cleaned document is written there *)
clean_history_moves_input(files, input_path, output_path) ==
  IF input_path \notin DOMAIN files
  THEN [raised |-> TRUE, error |-> "FileNotFoundError", files |-> files]
  ELSE IF ~json_parses(files[input_path])
  THEN [raised |-> TRUE, error |-> "JSONDecodeError", files |-> files]
  ELSE LET r == clean_document(json_load(files[input_path]))
       IN [raised |-> r.raised, error |-> r.error,
           files |-> IF r.raised THEN files
                     ELSE [q \in (DOMAIN files \ {input_path})
                                   \cup {output_path} |->
                             IF q = output_path THEN json_dump(r.data)
                             ELSE files[q]]]

(* what lines 35-65 do to the files, and what they raise: open() of a
   missing input raises FileNotFoundError, json.load of text that is no
   JSON raises JSONDecodeError, and the output is opened, for writing,
   only at line 64, after the loop *)
clean_history(files, input_path, output_path) ==
  IF input_path \notin DOMAIN files
  THEN [raised |-> TRUE, error |-> "FileNotFoundError", files |-> files]
  ELSE IF ~json_parses(files[input_path])
  THEN [raised |-> TRUE, error |-> "JSONDecodeError", files |-> files]
  ELSE LET r == clean_document(json_load(files[input_path]))
       IN [raised |-> r.raised, error |-> r.error,
           files |-> IF r.raised THEN files
                     ELSE DictSet(files, output_path, json_dump(r.data))]

(* a call of clean_history(input_path, output_path) *)
CleanHistory(input_path, output_path) ==
  /\ LET r == clean_history(fs, input_path, output_path)
     IN /\ fs' = r.files
        /\ last' = [op |-> "clean_history", input |-> input_path,
                    output |-> output_path, raised |-> r.raised,
                    error |-> r.error]
  /\ UNCHANGED <<environ, _instance, heap, holder, written, gen, code,
               upd, task, ui>>

NextClean == \E c \in CleanCalls : CleanHistory(c[1], c[2])

SpecClean == InitClean /\ [][NextClean]_vars

-----------------------------------------------------------------------------
(* CodeGenerator.extract_interacted_elements (services/code_generator.py) *)

(* A path is the sequence of the pieces of its text: directory and file
   names, the separator, and the two markers line 54 splits on. *)
Sep == "/"
PrefixMarker == "cleaned_history_"
JsonSuffix == ".json"

IndexOfFirst(s, piece) ==
  IF \E i \in 1..Len(s) : s[i] = piece
  THEN CHOOSE i \in 1..Len(s) :
         s[i] = piece /\ \A j \in 1..(i - 1) : s[j] # piece
  ELSE 0

IndexOfLast(s, piece) ==
  IF \E i \in 1..Len(s) : s[i] = piece
  THEN CHOOSE i \in 1..Len(s) :
         s[i] = piece /\ \A j \in (i + 1)..Len(s) : s[j] # piece
  ELSE 0

(* s.split(piece)[-1] and s.split(piece)[0] *)
split_last(s, piece) == SubSeq(s, IndexOfLast(s, piece) + 1, Len(s))

split_first(s, piece) ==
  IF IndexOfFirst(s, piece) = 0 THEN s
  ELSE SubSeq(s, 1, IndexOfFirst(s, piece) - 1)

(* line 54 *)
timestamp_of(path) == split_first(split_last(path, PrefixMarker), JsonSuffix)

(* Path(path).parent, <<>> being the current directory *)
parent(path) ==
  IF IndexOfLast(path, Sep) = 0 THEN <<>>
  ELSE SubSeq(path, 1, IndexOfLast(path, Sep) - 1)

(* folder / name, for a name that does not start with the separator *)
joinpath(folder, name) ==
  IF folder = <<>> THEN name ELSE folder \o <<Sep>> \o name

(* lines 83-84 *)
elements_file_path(path) ==
  joinpath(parent(path), <<"elements_">> \o timestamp_of(path) \o <<JsonSuffix>>)

ProjectedKeys ==
  {"tag_name", "xpath", "attributes", "css_selector",
   "entire_parent_branch_path"}

(* lines 72-78: element.get(key) is None for a key the element lacks *)
element_data(element) ==
  JObj([k \in ProjectedKeys |->
          IF k \in DOMAIN element.o THEN element.o[k] ELSE JNull])

(* the loop of lines 69-79 over one interacted_element list *)
RECURSIVE extract_elements(_)
extract_elements(elements) ==
  IF elements = <<>> THEN <<>>
  ELSE (IF JTruthy(Head(elements)) /\ IsDict(Head(elements))
        THEN <<element_data(Head(elements))>>
        ELSE <<>>) \o extract_elements(Tail(elements))

(* lines 65-79 with state.get('interacted_element') and no default *)
extract_entry_without_default(entry) ==
  IF ~IsDict(entry)
  THEN [raised |-> TRUE, error |-> "AttributeError", elements |-> <<>>]
  ELSE LET state == IF "state" \in DOMAIN entry.o THEN entry.o["state"]
                    ELSE JObj(<<>>)
       IN IF ~IsDict(state)
          THEN [raised |-> TRUE, error |-> "AttributeError",
                elements |-> <<>>]
          ELSE LET elements == IF "interacted_element" \in DOMAIN state.o
                               THEN state.o["interacted_element"]
                               ELSE JNull
               IN IF elements.t = "null"
                  THEN [raised |-> TRUE, error |-> "TypeError",
                        elements |-> <<>>]
                  ELSE [raised |-> FALSE, error |-> "",
                        elements |-> extract_elements(elements.a)]

(* lines 65-79 for one entry: entry.get and state.get raise
   AttributeError on None, len(elements) raises TypeError on None; a list
   that is a dict or a str is walked key by key or character by character,
   none of which is a dict *)
extract_entry(entry) ==
  IF ~IsDict(entry)
  THEN [raised |-> TRUE, error |-> "AttributeError", elements |-> <<>>]
  ELSE LET state == IF "state" \in DOMAIN entry.o THEN entry.o["state"]
                    ELSE JObj(<<>>)
       IN IF ~IsDict(state)
          THEN [raised |-> TRUE, error |-> "AttributeError",
                elements |-> <<>>]
          ELSE LET elements == IF "interacted_element" \in DOMAIN state.o
                               THEN state.o["interacted_element"]
                               ELSE JArr(<<>>)
               IN IF elements.t = "null"
                  THEN [raised |-> TRUE, error |-> "TypeError",
                        elements |-> <<>>]
                  ELSE [raised |-> FALSE, error |-> "",
                        elements |-> extract_elements(elements.a)]

(* the loop of line 64, left at the first entry that raises *)
RECURSIVE extract_entries(_)
extract_entries(history) ==
  IF history = <<>>
  THEN [raised |-> FALSE, error |-> "", elements |-> <<>>]
  ELSE LET h == extract_entry(Head(history))
       IN IF h.raised THEN h
          ELSE LET t == extract_entries(Tail(history))
               IN [raised |-> t.raised, error |-> t.error,
                   elements |-> h.elements \o t.elements]

(* lines 58-79 on the parsed document: .get on a document that is no dict
   raises AttributeError, len() of a history that is None raises TypeError,
   and the keys of a history that is a dict, being str, have no .get *)
extract_document(data) ==
  IF ~IsDict(data)
  THEN [raised |-> TRUE, error |-> "AttributeError", elements |-> <<>>]
  ELSE LET history == IF "history" \in DOMAIN data.o THEN data.o["history"]
                      ELSE JArr(<<>>)
       IN CASE history.t = "null" ->
                 [raised |-> TRUE, error |-> "TypeError", elements |-> <<>>]
            [] history.t = "object" ->
                 [raised |-> DOMAIN history.o # {},
                  error |-> IF DOMAIN history.o # {}
                            THEN "AttributeError" ELSE "",
                  elements |-> <<>>]
            [] history.t = "str" ->
                 [raised |-> history.s # "",
                  error |-> IF history.s # "" THEN "AttributeError" ELSE "",
                  elements |-> <<>>]
            [] history.t = "array" -> extract_entries(history.a)

(* lines 44-99 on the files: what is written, where, and what is raised.
   open() for writing raises FileNotFoundError when the directory of the
   path does not exist. *)
extract_interacted_elements(files, dirs, cleaned_history_path) ==
  LET output == elements_file_path(cleaned_history_path)
  IN IF cleaned_history_path \notin DOMAIN files
     THEN [raised |-> TRUE, error |-> "FileNotFoundError", files |-> files,
           output |-> output]
     ELSE IF ~json_parses(files[cleaned_history_path])
     THEN [raised |-> TRUE, error |-> "JSONDecodeError", files |-> files,
           output |-> output]
     ELSE LET r == extract_document(json_load(files[cleaned_history_path]))
          IN IF r.raised
             THEN [raised |-> TRUE, error |-> r.error, files |-> files,
                   output |-> output]
             ELSE IF parent(output) \notin dirs
             THEN [raised |-> TRUE, error |-> "FileNotFoundError",
                   files |-> files, output |-> output]
             ELSE [raised |-> FALSE, error |-> "",
                   files |->
                     DictSet(files, output,
                             json_dump(JObj([interacted_elements |->
                                               JArr(r.elements)]))),
                   output |-> output]

(* The cleaned traces and the paths drawn as input *)
EmptyRecord == JObj(<<>>)

ExtractElementOptions == ElementOptions \cup {EmptyRecord}

ExtractElementLists ==
  UNION {[1..n -> ExtractElementOptions] : n \in 0..MaxElements}

ExtractEntryOptions ==
  {MkEntry(Absent), MkEntry(JNull), MkEntry(MkState(Absent, Absent)),
   MkEntry(MkState(Absent, JNull))}
    \cup {MkEntry(MkState(JStr(""), JArr(l))) : l \in ExtractElementLists}

ExtractPlainEntryOptions ==
  {MkEntry(MkState(Absent, Absent)),
   MkEntry(MkState(JStr(""), JArr(<<EmptyRecord, ElementFull>>)))}

ExtractTraces ==
  {JObj([meta |-> Meta, history |-> JArr(h)]) :
     h \in Histories(ExtractEntryOptions, ExtractPlainEntryOptions)}

ExtractFiles ==
  {json_dump(d) : d \in ExtractTraces \cup {NoHistory, NullHistory}}
    \cup {Garbage}

CanonicalPath == <<"h", Sep, PrefixMarker, "1", JsonSuffix>>
BarePath == <<"trace1", JsonSuffix>>
NestedPath == <<"h", Sep, "trace1", JsonSuffix>>

ExtractPaths == {CanonicalPath, BarePath, NestedPath}

(* the directories that exist: the current one and the history folder *)
Dirs == {<<>>, <<"h">>}

InitExtract ==
  /\ environ = EmptyDict
  /\ _instance = 0
  /\ heap = <<>>
  /\ holder = [h \in Holders |-> 0]
  /\ written = EmptyDict
  /\ last = NoCall
  /\ gen = NoGen
  /\ code = NoCode
  /\ upd = NoUpdate
  /\ task = NoTask
  /\ ui = NoPage
  /\ \E path \in ExtractPaths, file \in ExtractFiles :
       fs = [p \in {path} |-> file]

(* a call of extract_interacted_elements(cleaned_history_path) *)
ExtractInteractedElements(cleaned_history_path) ==
  /\ LET r == extract_interacted_elements(fs, Dirs, cleaned_history_path)
     IN /\ fs' = r.files
        /\ last' = [op |-> "extract_interacted_elements",
                    path |-> cleaned_history_path, output |-> r.output,
                    raised |-> r.raised, error |-> r.error]
  /\ UNCHANGED <<environ, _instance, heap, holder, written, gen, code,
               upd, task, ui>>

NextExtract ==
  \E path \in ExtractPaths \cap DOMAIN fs : ExtractInteractedElements(path)

SpecExtract == InitExtract /\ [][NextExtract]_vars

-----------------------------------------------------------------------------
(* CodeGenerator.generate_typescript_code_stream, a generator: each action
   below is one statement of its body, run when the consumer asks for the
   next fragment.  gen holds the position in the body (pc, an index into
   Program), the locals, what has been yielded and requested so far, and
   what the call meets outside: llm_error, the exception get_llm raises
   ("" for none), and provider, the fragments llm.stream delivers and the
   exception it raises after them ("" when the stream just ends). *)

(* lines 228-270 with the template read moved before line 228 *)
Program_template_first ==
  <<"read_template", "extract", "read_history", "get_llm", "stream">>

(* the statements of lines 228-270, in order *)
Program ==
  <<"extract", "read_history", "read_template", "get_llm", "stream">>

(* chunk.content values *)
Fragments == {<<>>, <<"a">>, <<"b", "c">>}

ProviderStreams ==
  [fragments : UNION {[1..n -> Fragments] : n \in 0..MaxFragments},
   error : {"", "APIError"}]

TemplatePath == <<"prompts", Sep, "generate.prompt">>
Template == [layout |-> "text", data |-> JStr("{json_file_content}")]

StreamTrace ==
  JObj([meta |-> Meta,
        history |-> JArr(<<MkEntry(MkState(JStr(""),
                                           JArr(<<ElementFull>>)))>>)])
BrokenTrace == JObj([meta |-> Meta, history |-> JArr(<<MkEntry(JNull)>>)])

StreamFiles == {json_dump(StreamTrace), json_dump(BrokenTrace), Garbage}

StreamPaths == {CanonicalPath, NestedPath}

InitStream ==
  /\ environ = EmptyDict
  /\ _instance = 0
  /\ heap = <<>>
  /\ holder = [h \in Holders |-> 0]
  /\ written = EmptyDict
  /\ last = NoCall
  /\ code = NoCode
  /\ upd = NoUpdate
  /\ task = NoTask
  /\ ui = NoPage
  /\ \E path \in StreamPaths, file \in StreamFiles,
        templates \in SUBSET {TemplatePath},
        llm_error \in {"", "ValidationError"},
        provider \in ProviderStreams :
       /\ fs = [p \in {path} \cup templates |->
                  IF p = path THEN file ELSE Template]
       /\ gen = [pc |-> 1, status |-> "running",
                 cleaned_history_path |-> path,
                 prompt_template_path |-> TemplatePath,
                 llm_error |-> llm_error, provider |-> provider,
                 done |-> <<>>, requests |-> 0, streaming |-> FALSE,
                 received |-> 0, total_content |-> <<>>, chunk_count |-> 0,
                 yielded |-> <<>>, error |-> ""]

StreamIdle ==
  UNCHANGED <<environ, _instance, heap, holder, written, last, code,
              upd, task, ui>>

(* lines 280-284 with the provider's error answered by one more call of
   llm.stream *)
on_failure_retries(g, cause) ==
  IF g.streaming /\ g.requests < 2
  THEN [g EXCEPT !.streaming = FALSE, !.received = 0]
  ELSE [g EXCEPT !.status = "raised", !.error = cause]

(* lines 280-284: the exception is logged and raised again, which ends the
   generator *)
on_failure(g, cause) == [g EXCEPT !.status = "raised", !.error = cause]

(* the statement at pc has run to its end *)
completed(g) ==
  [g EXCEPT !.pc = @ + 1, !.done = Append(@, Program[g.pc])]

(* line 270 yielding what has been accumulated so far *)
yielded_value_is_total(total_content, chunk_content) == total_content

(* line 270, total_content being the value line 268 has just assigned *)
yielded_value(total_content, chunk_content) == chunk_content

At(statement) ==
  /\ gen.pc \in 1..Len(Program)
  /\ gen.status = "running"
  /\ Program[gen.pc] = statement

(* line 228 *)
GenExtract ==
  /\ At("extract")
  /\ LET r == extract_interacted_elements(fs, Dirs, gen.cleaned_history_path)
     IN /\ fs' = r.files
        /\ gen' = IF r.raised THEN on_failure(gen, r.error)
                  ELSE completed(gen)
  /\ StreamIdle

(* lines 232-233 *)
GenReadHistory ==
  /\ At("read_history")
  /\ gen' = IF gen.cleaned_history_path \in DOMAIN fs
            THEN completed(gen)
            ELSE on_failure(gen, "FileNotFoundError")
  /\ UNCHANGED fs
  /\ StreamIdle

(* lines 238-243 *)
GenReadTemplate ==
  /\ At("read_template")
  /\ gen' = IF gen.prompt_template_path \in DOMAIN fs
            THEN completed(gen)
            ELSE on_failure(gen, "FileNotFoundError")
  /\ UNCHANGED fs
  /\ StreamIdle

(* line 252 *)
GenGetLlm ==
  /\ At("get_llm")
  /\ gen' = IF gen.llm_error = "" THEN completed(gen)
            ELSE on_failure(gen, gen.llm_error)
  /\ UNCHANGED fs
  /\ StreamIdle

(* lines 263-266: the call llm.stream(messages) *)
GenRequest ==
  /\ At("stream")
  /\ ~gen.streaming
  /\ gen' = [gen EXCEPT !.streaming = TRUE, !.requests = @ + 1,
                         !.total_content = <<>>, !.chunk_count = 0]
  /\ UNCHANGED fs
  /\ StreamIdle

(* lines 266-270: the stream delivers its next fragment *)
GenChunk ==
  /\ At("stream")
  /\ gen.streaming
  /\ gen.received < Len(gen.provider.fragments)
  /\ LET chunk_content == gen.provider.fragments[gen.received + 1]
         total_content == gen.total_content \o chunk_content
     IN gen' = [gen EXCEPT !.received = @ + 1,
                           !.total_content = total_content,
                           !.chunk_count = @ + 1,
                           !.yielded =
                             Append(@, yielded_value(total_content,
                                                     chunk_content))]
  /\ UNCHANGED fs
  /\ StreamIdle

(* lines 266 and 272-278: the stream ends and so does the generator *)
GenEnd ==
  /\ At("stream")
  /\ gen.streaming
  /\ gen.received = Len(gen.provider.fragments)
  /\ gen.provider.error = ""
  /\ gen' = [completed(gen) EXCEPT !.status = "done"]
  /\ UNCHANGED fs
  /\ StreamIdle

(* line 266: the stream raises *)
GenProviderError ==
  /\ At("stream")
  /\ gen.streaming
  /\ gen.received = Len(gen.provider.fragments)
  /\ gen.provider.error # ""
  /\ gen' = on_failure(gen, gen.provider.error)
  /\ UNCHANGED fs
  /\ StreamIdle

NextStream ==
  \/ GenExtract
  \/ GenReadHistory
  \/ GenReadTemplate
  \/ GenGetLlm
  \/ GenRequest
  \/ GenChunk
  \/ GenEnd
  \/ GenProviderError

SpecStream == InitStream /\ [][NextStream]_vars

-----------------------------------------------------------------------------
(* The fence stripping of app.py.  A text is the sequence of its pieces: a
   fence (three backquotes, written [fence] here) with the language name
   that follows it, a fence with no language name after it, a newline, a
   blank and a piece of anything else. *)

FencePython == "[fence]python"
FenceTypescript == "[fence]typescript"
FenceJava == "[fence]java"
BareFence == "[fence]"

TextPieces ==
  {FencePython, FenceTypescript, FenceJava, BareFence, "\n", " ", "x"}

Texts == UNION {[1..n -> TextPieces] : n \in 0..MaxTextLen}

(* marker in text *)
contains(text, marker) == \E i \in 1..Len(text) : text[i] = marker

(* text.split("\n") *)
RECURSIVE split_lines(_)
split_lines(text) ==
  IF IndexOfFirst(text, "\n") = 0 THEN <<text>>
  ELSE <<SubSeq(text, 1, IndexOfFirst(text, "\n") - 1)>>
         \o split_lines(SubSeq(text, IndexOfFirst(text, "\n") + 1, Len(text)))

(* "\n".join(lines) *)
RECURSIVE join_lines(_)
join_lines(lines) ==
  IF lines = <<>> THEN <<>>
  ELSE IF Len(lines) = 1 THEN lines[1]
  ELSE lines[1] \o <<"\n">> \o join_lines(Tail(lines))

(* the condition of the generator expression, lines 1083, 1086, 1089 *)
keeps_line(line, marker) ==
  /\ ~(strip(line) # <<>> /\ Head(strip(line)) = marker)
  /\ strip(line) # <<BareFence>>

remove_fence_lines(text, marker) ==
  join_lines(SelectSeq(split_lines(text),
                       LAMBDA line : keeps_line(line, marker)))

(* lines 1080-1089 *)
display_code(generated_code) ==
  IF contains(generated_code, FencePython)
  THEN remove_fence_lines(generated_code, FencePython)
  ELSE IF contains(generated_code, FenceTypescript)
  THEN remove_fence_lines(generated_code, FenceTypescript)
  ELSE IF contains(generated_code, FenceJava)
  THEN remove_fence_lines(generated_code, FenceJava)
  ELSE generated_code

(* lines 1104-1119 *)
download_code(generated_code) ==
  IF contains(generated_code, FencePython)
  THEN strip(remove_fence_lines(generated_code, FencePython))
  ELSE IF contains(generated_code, FenceTypescript)
  THEN strip(remove_fence_lines(generated_code, FenceTypescript))
  ELSE IF contains(generated_code, FenceJava)
  THEN strip(remove_fence_lines(generated_code, FenceJava))
  ELSE generated_code

InitFence ==
  /\ environ = EmptyDict
  /\ _instance = 0
  /\ heap = <<>>
  /\ holder = [h \in Holders |-> 0]
  /\ written = EmptyDict
  /\ last = NoCall
  /\ fs = EmptyDict
  /\ gen = NoGen
  /\ code \in Texts
  /\ upd = NoUpdate
  /\ task = NoTask
  /\ ui = NoPage

FenceIdle ==
  UNCHANGED <<environ, _instance, heap, holder, written, fs, gen,
              upd, task, ui>>

(* the display variant applied to the text at hand *)
DisplayCode ==
  /\ code' = display_code(code)
  /\ last' = [op |-> "display_code", text |-> code]
  /\ FenceIdle

(* the download variant applied to the text at hand *)
DownloadCode ==
  /\ code' = download_code(code)
  /\ last' = [op |-> "download_code", text |-> code]
  /\ FenceIdle

NextFence == DisplayCode \/ DownloadCode

SpecFence == InitFence /\ [][NextFence]_vars

-----------------------------------------------------------------------------
(* BrowserTaskRunner.execute_task (services/browser_task_runner.py).  The
   runs of the process follow one another; the timestamp of a run is its
   number, timestamps of later runs being later.  The history folder holds
   one folder per timestamp; a file is <<folder, kind, stamp>>, for
   <history>/<folder>/<kind>_<stamp>.<ext>.  What the disk, the agent and
   the libraries do is drawn at each statement that depends on it. *)

Stamps == 1..MaxRuns

HistoryKind == "history"
RecordingKind == "recording"

NoPath == <<>>

BrowserTaskExecutionError == "BrowserTaskExecutionError"

EmptyDisk == [history |-> FALSE, folders |-> {}, files |-> {}]

(* the names bound at module level when safe_cleanup_directory runs *)
ModuleGlobals ==
  {"logger", "BrowserTaskExecutionError", "BrowserTaskRunner",
   "safe_cleanup_directory"}

(* lines 421-453: the test of line 432 reads the name history_folder, which
   is a local of execute_task and no global: NameError, caught at line 452.
   Were the name bound, the files and the folder would be removed. *)
safe_cleanup_directory(disk, dir_path) ==
  IF dir_path \notin disk.folders THEN disk
  ELSE IF "history_folder" \notin ModuleGlobals THEN disk
  ELSE [disk EXCEPT !.folders = @ \ {dir_path},
                    !.files = {f \in @ : f[1] # dir_path}]

(* lines 316-322: the folder name of the first recording the glob yields;
   the glob yields the recordings in an order of its own, so any of them
   may come first.  0 is for None. *)
recordings(disk) == {f \in disk.files : f[2] = RecordingKind}

actual_timestamps(disk) ==
  IF recordings(disk) = {} THEN {0} ELSE {f[1] : f \in recordings(disk)}

(* lines 324-346 for the recording found *)
reorganize(disk, timestamp, history_path, actual_timestamp) ==
  IF actual_timestamp # 0 /\ actual_timestamp # timestamp
  THEN LET made == [disk EXCEPT !.folders = @ \cup {actual_timestamp}]
           new_history_path ==
             <<actual_timestamp, HistoryKind, actual_timestamp>>
           moves == history_path \in made.files
           moved == IF moves
                    THEN [made EXCEPT
                            !.files = (@ \ {history_path})
                                        \cup {new_history_path}]
                    ELSE made
           empty == \A f \in moved.files : f[1] # timestamp
       IN [disk |-> IF timestamp \in moved.folders /\ empty
                    THEN [moved EXCEPT !.folders = @ \ {timestamp}]
                    ELSE moved,
           history_path |-> IF moves THEN new_history_path ELSE history_path,
           timestamp |-> actual_timestamp]
  ELSE [disk |-> disk, history_path |-> history_path,
        timestamp |-> timestamp]

InitTask ==
  /\ environ = EmptyDict
  /\ _instance = 0
  /\ heap = <<>>
  /\ holder = [h \in Holders |-> 0]
  /\ written = EmptyDict
  /\ last = NoCall
  /\ fs = EmptyDict
  /\ gen = NoGen
  /\ code = NoCode
  /\ upd = NoUpdate
  /\ ui = NoPage
  /\ task = [pc |-> "idle", run |-> 0, browser |-> "none",
             disk |-> EmptyDisk, timestamp |-> 0, history_path |-> NoPath,
             gif_path |-> NoPath, outcome |-> "none", error |-> "",
             failed_at |-> "", result |-> <<>>]

TaskIdle ==
  UNCHANGED <<environ, _instance, heap, holder, written, last, fs, gen,
              code, upd, ui>>

(* the call ends with an exception that reaches the caller *)
raises(t, statement, error) ==
  [t EXCEPT !.pc = "done", !.outcome = "raised", !.error = error,
            !.failed_at = statement]

(* lines 413-414 *)
finally(t) == [t EXCEPT !.browser = "closed"]

(* runner = BrowserTaskRunner(), lines 26-60: the browser is opened *)
RunnerInit ==
  /\ task.pc \in {"idle", "done"}
  /\ task.run < MaxRuns
  /\ task' = [task EXCEPT !.pc = "history_folder", !.run = @ + 1,
                          !.browser = "open", !.timestamp = 0,
                          !.history_path = NoPath, !.gif_path = NoPath,
                          !.outcome = "none", !.error = "",
                          !.failed_at = "", !.result = <<>>]
  /\ TaskIdle

(* lines 205-226: mkdir of the history folder and the reads of its state *)
SetupHistoryFolder(ok) ==
  /\ task.pc = "history_folder"
  /\ task' = IF ok
             THEN [task EXCEPT !.pc = "timestamp_folder",
                               !.disk.history = TRUE]
             ELSE raises(task, "history_folder", BrowserTaskExecutionError)
  /\ TaskIdle

(* lines 228-250 *)
SetupTimestampFolder(ok) ==
  /\ task.pc = "timestamp_folder"
  /\ task' = IF ok
             THEN [task EXCEPT !.pc = "gif_test",
                               !.timestamp = task.run,
                               !.disk.folders = @ \cup {task.run},
                               !.history_path =
                                 <<task.run, HistoryKind, task.run>>,
                               !.gif_path =
                                 <<task.run, RecordingKind, task.run>>]
             ELSE raises(task, "timestamp_folder", BrowserTaskExecutionError)
  /\ TaskIdle

(* lines 252-262: the test write, which leaves no file *)
TestGifPath(ok) ==
  /\ task.pc = "gif_test"
  /\ task' = [task EXCEPT !.pc = "agent",
                          !.gif_path = IF ok THEN @ ELSE NoPath]
  /\ TaskIdle

(* lines 264-286: get_llm() and Agent(...) are in no try statement *)
AgentInit(error) ==
  /\ task.pc = "agent"
  /\ task' = IF error = ""
             THEN [task EXCEPT !.pc = "run"]
             ELSE raises(task, "agent", error)
  /\ TaskIdle

ResourceError == "OSError: cannot open resource"

(* lines 288-311, with the finally clause when the statement raises.  The
   agent writes the recording when it was given a path for it. *)
AgentRun(error, recorded) ==
  /\ task.pc = "run"
  /\ recorded => error = "" /\ task.gif_path # NoPath
  /\ task' =
       IF error = ""
       THEN [task EXCEPT !.pc = "recording",
                         !.disk.files =
                           IF recorded THEN @ \cup {task.gif_path} ELSE @]
       ELSE IF error = ResourceError
       THEN IF task.gif_path # NoPath
            THEN [task EXCEPT !.pc = "recording"]
            ELSE finally(raises(task, "run", "OSError"))
       ELSE IF error = "OSError"
       THEN finally(raises(task, "run", "OSError"))
       ELSE finally(raises(
              [task EXCEPT !.disk = safe_cleanup_directory(@, task.timestamp)],
              "run", BrowserTaskExecutionError))
  /\ TaskIdle

(* lines 313-347 *)
FindRecording(actual_timestamp) ==
  /\ task.pc = "recording"
  /\ actual_timestamp \in actual_timestamps(task.disk)
  /\ LET r == reorganize(task.disk, task.timestamp, task.history_path,
                         actual_timestamp)
     IN task' = [task EXCEPT !.pc = "save", !.disk = r.disk,
                             !.history_path = r.history_path,
                             !.timestamp = r.timestamp]
  /\ TaskIdle

(* lines 349-414: touch, the test write and save_history, each of which
   may fail; touch fails when the folder of the path is gone.  Every
   failure is raised as BrowserTaskExecutionError, and the finally clause
   runs on the way out. *)
SaveHistory(ok) ==
  /\ task.pc = "save"
  /\ task' =
       IF ok /\ task.history_path[1] \in task.disk.folders
       THEN finally([task EXCEPT
                       !.pc = "done", !.outcome = "returned",
                       !.disk.files = @ \cup {task.history_path},
                       !.result = [history_path |-> task.history_path,
                                   timestamp |-> task.timestamp]])
       ELSE finally(raises(task, "save", BrowserTaskExecutionError))
  /\ TaskIdle

AgentErrors == {"", ResourceError, "OSError", "ValueError"}

NextTask ==
  \/ RunnerInit
  \/ \E ok \in BOOLEAN : SetupHistoryFolder(ok)
  \/ \E ok \in BOOLEAN : SetupTimestampFolder(ok)
  \/ \E ok \in BOOLEAN : TestGifPath(ok)
  \/ \E error \in {"", "ValueError"} : AgentInit(error)
  \/ \E error \in AgentErrors, recorded \in BOOLEAN : AgentRun(error, recorded)
  \/ \E actual_timestamp \in {0} \cup Stamps : FindRecording(actual_timestamp)
  \/ \E ok \in BOOLEAN : SaveHistory(ok)

SpecTask == InitTask /\ [][NextTask]_vars

-----------------------------------------------------------------------------
(* The model provider: what the sidebar commits (app.py) and what the two
   get_llm methods build from it.  The text of a provider name or of an API
   key is one piece; a configuration key is a string, so that the f-string
   of app.py:230 is the table of its results for the names the sidebar
   offers. *)

MODEL_PROVIDER == "MODEL_PROVIDER"

Openai == <<"openai">>
Azure == <<"azure">>
Anthropic == <<"anthropic">>
Deepseek == <<"deepseek">>
Groq == <<"groq">>
Google == <<"google">>

(* the options of the selectbox, app.py:728-734 *)
Providers == {Openai, Azure, Anthropic, Deepseek, Groq, Google}

(* str.lower() and str.upper() on a provider name *)
provider_lower(s) ==
  [i \in DOMAIN s |->
     CASE s[i] \in {"openai", "OPENAI"} -> "openai"
       [] s[i] \in {"azure", "AZURE"} -> "azure"
       [] s[i] \in {"anthropic", "ANTHROPIC"} -> "anthropic"
       [] s[i] \in {"deepseek", "DEEPSEEK"} -> "deepseek"
       [] s[i] \in {"groq", "GROQ"} -> "groq"
       [] s[i] \in {"google", "GOOGLE"} -> "google"
       [] OTHER -> s[i]]

provider_upper(s) ==
  [i \in DOMAIN s |->
     CASE s[i] \in {"openai", "OPENAI"} -> "OPENAI"
       [] s[i] \in {"azure", "AZURE"} -> "AZURE"
       [] s[i] \in {"anthropic", "ANTHROPIC"} -> "ANTHROPIC"
       [] s[i] \in {"deepseek", "DEEPSEEK"} -> "DEEPSEEK"
       [] s[i] \in {"groq", "GROQ"} -> "GROQ"
       [] s[i] \in {"google", "GOOGLE"} -> "GOOGLE"
       [] OTHER -> s[i]]

(* f"{model_provider.upper()}_API_KEY", app.py:230 *)
api_key_setting(model_provider) ==
  CASE provider_upper(model_provider) = <<"OPENAI">> -> "OPENAI_API_KEY"
    [] provider_upper(model_provider) = <<"AZURE">> -> "AZURE_API_KEY"
    [] provider_upper(model_provider) = <<"ANTHROPIC">> -> "ANTHROPIC_API_KEY"
    [] provider_upper(model_provider) = <<"DEEPSEEK">> -> "DEEPSEEK_API_KEY"
    [] provider_upper(model_provider) = <<"GROQ">> -> "GROQ_API_KEY"
    [] provider_upper(model_provider) = <<"GOOGLE">> -> "GOOGLE_API_KEY"

(* the key the sidebar reads to fill an empty API key field,
   app.py:187-191 and 761-766 *)
api_key_source(model_provider) ==
  IF model_provider = Azure THEN "AZURE_OPENAI_API_KEY"
  ELSE api_key_setting(model_provider)

(* what a get_llm builds: the class, and the key whose value it passes as
   the API key *)
Llm(class, key) == [strategy |-> class, credential_key |-> key]

(* CodeGenerator.get_llm, for the provider __init__ has read *)
CodeGenerator_get_llm(model_provider) ==
  IF model_provider = Anthropic
  THEN Llm("ChatAnthropic", "ANTHROPIC_API_KEY")
  ELSE IF model_provider = Azure
  THEN Llm("AzureChatOpenAI", "AZURE_OPENAI_API_KEY")
  ELSE IF model_provider = Deepseek
  THEN Llm("ChatOpenAI(deepseek)", "DEEPSEEK_API_KEY")
  ELSE IF model_provider = Groq
  THEN Llm("ChatGroq", "GROQ_API_KEY")
  ELSE IF model_provider = Google
  THEN Llm("ChatGoogleGenerativeAI", "GOOGLE_API_KEY")
  ELSE Llm("ChatOpenAI", "OPENAI_API_KEY")

(* BrowserTaskRunner.get_llm, for the provider it has read at line 148 *)
BrowserTaskRunner_get_llm(model_provider) ==
  IF model_provider = Anthropic
  THEN Llm("ChatAnthropic", "ANTHROPIC_API_KEY")
  ELSE IF model_provider = Deepseek
  THEN Llm("ChatOpenAI(deepseek)", "DEEPSEEK_API_KEY")
  ELSE IF model_provider = Groq
  THEN Llm("ChatGroq", "GROQ_API_KEY")
  ELSE IF model_provider = Google
  THEN Llm("ChatGoogleGenerativeAI", "GOOGLE_API_KEY")
  ELSE Llm("ChatOpenAI", "OPENAI_API_KEY")

(* get_config for a key that is none of CODE_GENERATION_PERSONA,
   AZURE_OPENAI_ENDPOINT and AZURE_DEPLOYMENT_NAME: the three conditionals
   after the lookup compare the key with those names and are skipped, so the
   looked-up value is returned as it is *)
get_config_plain(rc, env, key, default) ==
  DictGet(rc, key, getenv(env, key, default))

EnvKey == <<"env-key">>
UiKey == <<"ui-key">>

(* the API keys that the .env file may hold *)
LlmEnvironments ==
  { EmptyDict,
    [k \in {"OPENAI_API_KEY", "AZURE_OPENAI_API_KEY"} |-> EnvKey],
    [k \in {MODEL_PROVIDER, "AZURE_OPENAI_API_KEY", "GROQ_API_KEY"} |->
       IF k = MODEL_PROVIDER THEN Azure ELSE EnvKey] }

(* the values of the API key field *)
ApiKeys == {<<>>, UiKey, EnvKey}

(* the process after config_manager = ConfigManager() and
   initialize_session_state(), app.py:119 and 163-191 *)
InitLlm ==
  /\ \E e \in LlmEnvironments :
       LET n == ConfigManager__new__(0, <<>>)
           i == ConfigManager__init__(n.heap, e, n.inst)
           p == get_config_plain(EmptyDict, i.env, MODEL_PROVIDER, Openai)
       IN /\ _instance = n.inst
          /\ heap = i.heap
          /\ environ = i.env
          /\ holder = [h \in Holders |-> IF h = App THEN n.inst ELSE 0]
          /\ ui = [pc |-> 0, runs |-> 0, model_provider |-> p,
                   api_key |-> get_config_plain(EmptyDict, i.env,
                                                api_key_source(p), <<>>)]
  /\ written = EmptyDict
  /\ last = NoCall
  /\ fs = EmptyDict
  /\ gen = NoGen
  /\ code = NoCode
  /\ upd = NoUpdate
  /\ task = NoTask

LlmIdle == UNCHANGED <<_instance, written, fs, gen, code, upd, task>>

(* current_settings of app.py:226-233, as far as the model goes *)
current_settings(session_state) ==
  <<<<MODEL_PROVIDER, session_state.model_provider>>,
    <<MODEL_NAME, Gpt4>>,
    <<api_key_setting(session_state.model_provider), session_state.api_key>>>>

(* A script run after the user has chosen a provider and typed an API key:
   an empty field is filled from the configuration (app.py:761-766), and
   the run commits current_settings (app.py:226-248). *)
ScriptRun(model_provider, api_key) ==
  /\ ui.runs < MaxCalls
  /\ LET field == IF ~Truthy(api_key)
                  THEN get_config_plain(RuntimeOf(App), environ,
                                        api_key_source(model_provider), <<>>)
                  ELSE api_key
         session_state == [pc |-> 0, runs |-> ui.runs + 1,
                           model_provider |-> model_provider,
                           api_key |-> field]
         st == update_from_ui([rc |-> RuntimeOf(App), env |-> environ],
                              current_settings(session_state))
     IN /\ ui' = session_state
        /\ heap' = [heap EXCEPT ![holder[App]]._runtime_config = st.rc]
        /\ environ' = st.env
  /\ last' = [op |-> "script_run"]
  /\ UNCHANGED holder
  /\ LlmIdle

(* runner = BrowserTaskRunner() and the get_llm() of execute_task *)
RunnerGetLlm ==
  /\ last.op # "start"
  /\ LET env0 == load_dotenv(environ)
         n == ConfigManager__new__(_instance, heap)
         rc == heap[n.inst]._runtime_config
         llm == BrowserTaskRunner_get_llm(
                  provider_lower(get_config_plain(rc, env0, MODEL_PROVIDER,
                                                  Openai)))
     IN /\ environ' = env0
        /\ holder' = [holder EXCEPT ![Runner] = n.inst]
        /\ last' = [op |-> "BrowserTaskRunner.get_llm", llm |-> llm,
                    api_key |-> get_config_plain(rc, env0,
                                                 llm.credential_key, None)]
  /\ UNCHANGED <<heap, ui>>
  /\ LlmIdle

(* generator = CodeGenerator() and the get_llm() of the stream *)
GeneratorGetLlm ==
  /\ last.op # "start"
  /\ LET n == ConfigManager__new__(_instance, heap)
         rc == heap[n.inst]._runtime_config
         llm == CodeGenerator_get_llm(
                  provider_lower(get_config_plain(rc, environ, MODEL_PROVIDER,
                                                  Openai)))
     IN /\ holder' = [holder EXCEPT ![Generator] = n.inst]
        /\ last' = [op |-> "CodeGenerator.get_llm", llm |-> llm,
                    api_key |-> get_config_plain(rc, environ,
                                                 llm.credential_key, None)]
  /\ UNCHANGED <<environ, heap, ui>>
  /\ LlmIdle

NextLlm ==
  \/ \E p \in Providers, k \in ApiKeys : ScriptRun(p, k)
  \/ RunnerGetLlm
  \/ GeneratorGetLlm

SpecLlm == InitLlm /\ [][NextLlm]_vars

-----------------------------------------------------------------------------
(* The page of app.py around a submission.  A script run is triggered by a
   press of Go, by a click on Start New Task or by any other widget; it
   runs from top to bottom in one thread, and ui.pc is the statement it is
   at ("idle" between runs).  ui holds the session state (input_enabled,
   task_input, task_failed) and what the run has rendered. *)

TaskInputs == {<<>>, <<" ">>, <<"t">>}

(* the options of the code generation selectbox, lines 38-41 and 876-882 *)
PLAYWRIGHT_PYTHON == "playwright_py_code"
PLAYWRIGHT_TYPESCRIPT == "playwright_ts_code"
CYPRESS_TYPESCRIPT == "cypress_ts_code"
SELENIUM_JAVA == "selenium_java_code"

Personas ==
  {PLAYWRIGHT_PYTHON, PLAYWRIGHT_TYPESCRIPT, CYPRESS_TYPESCRIPT, SELENIUM_JAVA}

(* lines 1051-1056 *)
language_of(code_generation_persona) ==
  IF code_generation_persona = PLAYWRIGHT_PYTHON THEN "python"
  ELSE IF code_generation_persona = SELENIUM_JAVA THEN "java"
  ELSE "typescript"

InitPage ==
  /\ environ = EmptyDict
  /\ _instance = 0
  /\ heap = <<>>
  /\ holder = [h \in Holders |-> 0]
  /\ written = EmptyDict
  /\ last = NoCall
  /\ fs = EmptyDict
  /\ gen = NoGen
  /\ code = NoCode
  /\ upd = NoUpdate
  /\ task = NoTask
  /\ \E persona \in Personas :
       ui = [pc |-> "idle", trigger |-> "load", input_enabled |-> TRUE,
             task_input |-> <<>>, submitted |-> FALSE, task_failed |-> FALSE,
             new_task_button |-> FALSE, download_link |-> FALSE,
             status |-> "", chunk_count |-> 0,
             code_generation_persona |-> persona, language |-> ""]

PageIdle ==
  UNCHANGED <<environ, _instance, heap, holder, written, last, fs, gen,
              code, upd, task>>

(* show_new_task_button() followed by st.stop(), lines 1010-1018 and the
   except clauses of lines 1160-1180 *)
show_new_task_button_and_stop(page) ==
  [page EXCEPT !.new_task_button = TRUE, !.pc = "idle"]

(* Go is pressed with text in the task field: on_form_submit (lines
   221-222), then the script runs to the form and to line 1000 *)
PressGo(text) ==
  /\ ui.pc = "idle"
  /\ ui.input_enabled
  /\ ui' = [ui EXCEPT !.trigger = "go", !.input_enabled = FALSE,
                      !.task_input = text, !.submitted = TRUE,
                      !.new_task_button = FALSE, !.download_link = FALSE,
                      !.status = "", !.chunk_count = 0,
                      !.task_failed = FALSE, !.language = "",
                      !.pc = IF text # <<>> THEN "browser" ELSE "idle"]
  /\ PageIdle

(* execute_browser_task, lines 962-990, and lines 1021-1027 *)
ExecuteBrowserTask(error) ==
  /\ ui.pc = "browser"
  /\ ui' = IF error = ""
           THEN [ui EXCEPT !.pc = "clean"]
           ELSE show_new_task_button_and_stop(
                  [ui EXCEPT !.status = "error", !.input_enabled = TRUE,
                             !.task_failed = TRUE])
  /\ PageIdle

(* lines 1029-1041; an exception is caught at line 1167 *)
PageCleanHistory(ok) ==
  /\ ui.pc = "clean"
  /\ ui' = IF ok
           THEN [ui EXCEPT !.pc = "stream", !.status = "info",
                           !.language =
                             language_of(ui.code_generation_persona)]
           ELSE show_new_task_button_and_stop([ui EXCEPT !.status = "error"])
  /\ PageIdle

(* one turn of the loop of lines 1072-1092 *)
ReceiveChunk ==
  /\ ui.pc = "stream"
  /\ ui.chunk_count < MaxFragments
  /\ ui' = [ui EXCEPT !.chunk_count = @ + 1]
  /\ PageIdle

(* the generator raises: the except clause of lines 1160-1165 *)
StreamRaises ==
  /\ ui.pc = "stream"
  /\ ui' = show_new_task_button_and_stop([ui EXCEPT !.status = "error"])
  /\ PageIdle

(* the generator is exhausted: lines 1094-1147, and line 1183 when no
   fragment came *)
StreamEnds ==
  /\ ui.pc = "stream"
  /\ ui' = IF ui.chunk_count > 0
           THEN [ui EXCEPT !.status = "success", !.download_link = TRUE,
                           !.new_task_button = TRUE, !.pc = "recording"]
           ELSE [ui EXCEPT !.status = "", !.pc = "idle"]
  /\ PageIdle

(* lines 1149-1159 and 1183; open(gif_path) raises when the run has no
   recording, which the except clause of line 1160 reports *)
ShowRecording(ok) ==
  /\ ui.pc = "recording"
  /\ ui' = IF ok
           THEN [ui EXCEPT !.status = "", !.pc = "idle"]
           ELSE show_new_task_button_and_stop([ui EXCEPT !.status = "error"])
  /\ PageIdle

(* a click on Start New Task: clear_task_input (lines 214-218) and the run
   it triggers, in which submitted is False *)
ClickNewTask ==
  /\ ui.pc = "idle"
  /\ ui.new_task_button
  /\ ui' = [ui EXCEPT !.trigger = "new_task", !.task_input = <<>>,
                      !.input_enabled = TRUE, !.submitted = FALSE,
                      !.new_task_button = FALSE, !.download_link = FALSE,
                      !.status = "", !.language = ""]
  /\ PageIdle

(* a run triggered by the code generation selectbox: submitted is False,
   and lines 1000-1183 are skipped *)
Rerun(persona) ==
  /\ ui.pc = "idle"
  /\ ui' = [ui EXCEPT !.trigger = "widget", !.submitted = FALSE,
                      !.new_task_button = FALSE, !.download_link = FALSE,
                      !.status = "", !.language = "",
                      !.code_generation_persona = persona]
  /\ PageIdle

NextPage ==
  \/ \E text \in TaskInputs : PressGo(text)
  \/ \E error \in {"", BrowserTaskExecutionError, "Exception"} :
       ExecuteBrowserTask(error)
  \/ \E ok \in BOOLEAN : PageCleanHistory(ok)
  \/ ReceiveChunk
  \/ StreamRaises
  \/ StreamEnds
  \/ \E ok \in BOOLEAN : ShowRecording(ok)
  \/ ClickNewTask
  \/ \E persona \in Personas : Rerun(persona)

SpecPage == InitPage /\ [][NextPage]_vars

-----------------------------------------------------------------------------
(* Properties of the resolver *)

(* the value the precedence rule gives: last write, else environment,
   else the caller's default *)
Resolved(key, default) ==
  IF key \in DOMAIN written THEN written[key]
  ELSE IF key \in DOMAIN environ THEN environ[key]
  ELSE default

AllWhitespace(v) == \A i \in 1..Len(v) : v[i] \in Whitespace

(* C1: get_config of a key without post-processing returns the value most
   recently written for the key, else the environment variable, else the
   default. *)
C1_Precedence ==
  (last.op = "get_config" /\ last.key \in PlainKeys)
    => last.result = Resolved(last.key, last.default)

C1_Witness ==
  /\ last.op = "get_config"
  /\ last.key = MODEL_NAME
  /\ MODEL_NAME \in DOMAIN written
  /\ last.result = <<"7">>
  /\ last.default = Gpt35

(* C2 as stated: after set_config the overlay and the environment hold the
   value, and reading the environment variable gives what get_config(key)
   gives. *)
C2_EnvReadEqualsGetConfig ==
  last.op = "set_config"
    => /\ RuntimeOf(last.holder)[last.key] = last.value
       /\ environ[last.key] = str(last.value)
       /\ environ[last.key] =
            get_config(RuntimeOf(last.holder), environ, last.key, None)

(* C2 amended: after set_config the overlay holds the value and the
   environment its string form; the environment read equals get_config(key)
   for a key without post-processing. *)
C2_Mirror ==
  last.op = "set_config"
    => /\ last.key \in DOMAIN RuntimeOf(last.holder)
       /\ RuntimeOf(last.holder)[last.key] = last.value
       /\ last.key \in DOMAIN environ
       /\ environ[last.key] = str(last.value)
       /\ last.key \in PlainKeys =>
            environ[last.key] =
              get_config(RuntimeOf(last.holder), environ, last.key, None)

C2_Witness ==
  /\ last.op = "set_config"
  /\ last.key = MODEL_NAME
  /\ last.value = Gpt4
  /\ MODEL_NAME \in DOMAIN environ
  /\ environ[MODEL_NAME] = Gpt4
  /\ get_config(RuntimeOf(App), environ, MODEL_NAME, None) = Gpt4

(* the effect of update_from_ui on the two layers: str(value) is written
   for every entry that is not None, every other key keeps its value *)
LayersAfterUpdate(s, rc0, rc1, env0, env1) ==
  \A k \in Keys :
    IF \E i \in 1..Len(s) : s[i][1] = k /\ s[i][2] # None
    THEN LET i == CHOOSE i \in 1..Len(s) : s[i][1] = k
         IN /\ k \in DOMAIN rc1 /\ rc1[k] = str(s[i][2])
            /\ k \in DOMAIN env1 /\ env1[k] = str(s[i][2])
    ELSE /\ (k \in DOMAIN rc1) = (k \in DOMAIN rc0)
         /\ k \in DOMAIN rc0 => rc1[k] = rc0[k]
         /\ (k \in DOMAIN env1) = (k \in DOMAIN env0)
         /\ k \in DOMAIN env0 => env1[k] = env0[k]

NullKeys(s) == {s[i][1] : i \in {j \in 1..Len(s) : s[j][2] = None}}

WritesKey(s, k) == \E i \in 1..Len(s) : s[i][1] = k /\ s[i][2] # None

(* C3 as stated: update_from_ui writes str(value) for every entry that is
   not None, leaves the other keys as they were, and get_config of every key
   whose entry is None returns what it returned before. *)
C3_NullEntryKeepsGetConfig ==
  [][last'.op = "update_from_ui" =>
       LET s == last'.settings
           rc0 == heap[holder[last'.holder]]._runtime_config
           rc1 == heap'[holder'[last'.holder]]._runtime_config
       IN /\ LayersAfterUpdate(s, rc0, rc1, environ, environ')
          /\ \A k \in NullKeys(s) : \A d \in Defaults :
               get_config(rc1, environ', k, d) = get_config(rc0, environ, k, d)
  ]_vars

(* C3 amended: the same, but get_config of a key whose entry is None is
   only unchanged when the key is not AZURE_DEPLOYMENT_NAME, or a non-empty
   deployment name is set, or the mapping does not write MODEL_NAME. *)
C3_UpdateManyEffect ==
  [][last'.op = "update_from_ui" =>
       LET s == last'.settings
           rc0 == heap[holder[last'.holder]]._runtime_config
           rc1 == heap'[holder'[last'.holder]]._runtime_config
       IN /\ LayersAfterUpdate(s, rc0, rc1, environ, environ')
          /\ \A k \in NullKeys(s) : \A d \in Defaults :
               (\/ k # AZURE_DEPLOYMENT_NAME
                \/ Truthy(DictGet(rc0, k, getenv(environ, k, None)))
                \/ ~WritesKey(s, MODEL_NAME))
               => get_config(rc1, environ', k, d)
                    = get_config(rc0, environ, k, d)
  ]_vars

C3_Witness ==
  /\ last.op = "update_from_ui"
  /\ last.settings = <<<<MODEL_NAME, None>>, <<CODE_GENERATION_PERSONA, <<>>>>>>
  /\ written = [k \in {MODEL_NAME, CODE_GENERATION_PERSONA} |->
                  IF k = MODEL_NAME THEN Gpt35 ELSE <<>>]
  /\ RuntimeOf(App) = written

(* C4: every ConfigManager() gives the one instance, and no construction
   clears or changes a value written before: every holder's overlay holds
   every written value, and get_config through any holder returns it. *)
C4_Singleton ==
  /\ Len(heap) <= 1
  /\ \A h \in Holders : holder[h] \in {0, _instance}
  /\ \A h \in Holders :
       holder[h] # 0 =>
         \A k \in DOMAIN written :
           k \in DOMAIN RuntimeOf(h) /\ RuntimeOf(h)[k] = written[k]
  /\ (last.op = "get_config" /\ last.key \in PlainKeys
        /\ last.key \in DOMAIN written)
       => last.result = written[last.key]

C4_Witness ==
  /\ last.op = "ConfigManager"
  /\ last.holder = Generator
  /\ \A h \in Holders : holder[h] = 1
  /\ written = [k \in {MODEL_NAME} |-> Gpt4]

(* C5: get_config("CODE_GENERATION_PERSONA") returns the fixed fallback when
   the resolved value is None, empty or whitespace only, and the resolved
   value otherwise; it never returns None, "" or whitespace. *)
C5_PersonaFallback ==
  (last.op = "get_config" /\ last.key = CODE_GENERATION_PERSONA)
    => LET r == Resolved(last.key, last.default)
       IN /\ last.result # None
          /\ ~AllWhitespace(last.result)
          /\ IF r = None \/ AllWhitespace(r)
             THEN last.result = FallbackPersona
             ELSE last.result = r

C5_Witness ==
  /\ last.op = "get_config"
  /\ last.key = CODE_GENERATION_PERSONA
  /\ CODE_GENERATION_PERSONA \notin DOMAIN written
  /\ CODE_GENERATION_PERSONA \in DOMAIN environ
  /\ environ[CODE_GENERATION_PERSONA] = Blank
  /\ last.default = Gpt35
  /\ last.result = FallbackPersona

(* a value of the form scheme://host..., and its scheme://host[:port] *)
IsAbsoluteUrl(v) ==
  \E i \in 2..(Len(v) - 3) :
    /\ v[i] = ":" /\ v[i + 1] = "/" /\ v[i + 2] = "/"
    /\ v[i + 3] \notin NetlocEnd
    /\ \A j \in 1..(i - 1) : v[j] \in SchemeChars

BaseUrl(v) ==
  LET i == CHOOSE i \in 2..(Len(v) - 3) :
             v[i] = ":" /\ v[i + 1] = "/" /\ v[i + 2] = "/"
      e == CHOOSE e \in (i + 3)..(Len(v) + 1) :
             /\ e = Len(v) + 1 \/ v[e] \in NetlocEnd
             /\ \A j \in (i + 3)..(e - 1) : v[j] \notin NetlocEnd
  IN SubSeq(v, 1, e - 1)

(* C6 as stated: get_config("AZURE_OPENAI_ENDPOINT") returns
   scheme://host[:port] of a resolved URL, returns None and "" as they are,
   and returns a value that is not a URL unchanged. *)
C6_EndpointCanonical ==
  (last.op = "get_config" /\ last.key = AZURE_OPENAI_ENDPOINT)
    => LET r == Resolved(last.key, last.default)
       IN IF r = None \/ r = <<>> THEN last.result = r
          ELSE IF IsAbsoluteUrl(r) THEN last.result = BaseUrl(r)
          ELSE last.result = r

(* C7 as stated: get_config("AZURE_DEPLOYMENT_NAME") returns the deployment
   name whenever one is set in the overlay or the environment, and the
   resolved MODEL_NAME otherwise. *)
C7_DeploymentWhenSet ==
  (last.op = "get_config" /\ last.key = AZURE_DEPLOYMENT_NAME)
    => IF AZURE_DEPLOYMENT_NAME \in DOMAIN written \cup DOMAIN environ
       THEN last.result = Resolved(AZURE_DEPLOYMENT_NAME, None)
       ELSE last.result = Resolved(MODEL_NAME, last.default)

(* C7 amended: it returns the deployment name when one is set and is not
   empty, and the resolved MODEL_NAME (overlay, environment, default) when
   none is set or the one set is empty. *)
C7_DeploymentFallback ==
  (last.op = "get_config" /\ last.key = AZURE_DEPLOYMENT_NAME)
    => LET d == Resolved(AZURE_DEPLOYMENT_NAME, None)
       IN IF d # None /\ d # <<>>
          THEN last.result = d
          ELSE last.result = Resolved(MODEL_NAME, last.default)

C7_Witness ==
  /\ last.op = "get_config"
  /\ last.key = AZURE_DEPLOYMENT_NAME
  /\ AZURE_DEPLOYMENT_NAME \notin DOMAIN written \cup DOMAIN environ
  /\ Resolved(MODEL_NAME, None) = Gpt4
  /\ last.default = Gpt35
  /\ last.result = Gpt4

-----------------------------------------------------------------------------
(* Properties of the sanitizer *)

Cleaned(p) == last.op = "clean_history" /\ ~last.raised /\ last.output = p

HistoryOf(p) == fs[p].data.o["history"].a

(* C8: cleaning the output of clean_history succeeds and writes a file
   identical to that output. *)
C8_Idempotent ==
  /\ (last.op = "clean_history" /\ last.input = CleanedPath
        /\ CleanedPath \in DOMAIN fs) => ~last.raised
  /\ RecleanedPath \in DOMAIN fs => fs[RecleanedPath] = fs[CleanedPath]

C8_Witness ==
  /\ Cleaned(RecleanedPath)
  /\ fs[RawPath].layout = "compact"
  /\ Len(HistoryOf(RawPath)) = 2
  /\ \A i \in 1..2 :
       /\ "state" \in DOMAIN HistoryOf(RawPath)[i].o
       /\ "screenshot" \in DOMAIN HistoryOf(RawPath)[i].o["state"].o
       /\ HistoryOf(RawPath)[i].o["state"].o["screenshot"] = JStr("png")
  /\ fs[RecleanedPath] # fs[RawPath]

StateOf(entry) == entry.o["state"].o

HasState(entry) == "state" \in DOMAIN entry.o

(* C9: in the output every screenshot that was present and non-empty is
   the empty string, a screenshot key that was present is still present, no
   screenshot is non-empty, and a step without the key does not get one. *)
C9_ScreenshotsCleared ==
  Cleaned(CleanedPath) =>
    LET inp == HistoryOf(RawPath)
        out == HistoryOf(CleanedPath)
    IN /\ Len(out) = Len(inp)
       /\ \A i \in 1..Len(inp) :
            /\ HasState(out[i]) = HasState(inp[i])
            /\ HasState(inp[i]) =>
                 /\ ("screenshot" \in DOMAIN StateOf(out[i]))
                      = ("screenshot" \in DOMAIN StateOf(inp[i]))
                 /\ "screenshot" \in DOMAIN StateOf(inp[i]) =>
                      /\ ~JTruthy(StateOf(out[i])["screenshot"])
                      /\ JTruthy(StateOf(inp[i])["screenshot"]) =>
                           StateOf(out[i])["screenshot"] = JStr("")

C9_Witness ==
  /\ Cleaned(CleanedPath)
  /\ Len(HistoryOf(RawPath)) = 2
  /\ HasState(HistoryOf(RawPath)[1])
  /\ "screenshot" \in DOMAIN StateOf(HistoryOf(RawPath)[1])
  /\ StateOf(HistoryOf(RawPath)[1])["screenshot"] = JStr("png")
  /\ StateOf(HistoryOf(CleanedPath)[1])["screenshot"] = JStr("")
  /\ HasState(HistoryOf(RawPath)[2])
  /\ "screenshot" \notin DOMAIN StateOf(HistoryOf(RawPath)[2])
  /\ "screenshot" \notin DOMAIN StateOf(HistoryOf(CleanedPath)[2])

HasElements(entry) ==
  HasState(entry) /\ "interacted_element" \in DOMAIN StateOf(entry)

ElementsOf(entry) == StateOf(entry)["interacted_element"].a

(* C10: in the output every record entry of an interacted_element list has
   the same keys as in the input, {} for each of the three geometry keys it
   had and every other field unchanged; None and non-record entries are
   unchanged, and every list keeps its length. *)
C10_CoordinatesReset ==
  Cleaned(CleanedPath) =>
    LET inp == HistoryOf(RawPath)
        out == HistoryOf(CleanedPath)
    IN /\ Len(out) = Len(inp)
       /\ \A i \in 1..Len(inp) :
            /\ HasElements(out[i]) = HasElements(inp[i])
            /\ HasElements(inp[i]) =>
                 /\ Len(ElementsOf(out[i])) = Len(ElementsOf(inp[i]))
                 /\ \A j \in 1..Len(ElementsOf(inp[i])) :
                      LET a == ElementsOf(inp[i])[j]
                          b == ElementsOf(out[i])[j]
                      IN IF a.t = "object"
                         THEN /\ b.t = "object"
                              /\ DOMAIN b.o = DOMAIN a.o
                              /\ \A k \in DOMAIN a.o :
                                   b.o[k] = IF k \in CoordinateKeys
                                            THEN JObj(<<>>)
                                            ELSE a.o[k]
                         ELSE b = a

C10_Witness ==
  /\ Cleaned(CleanedPath)
  /\ Len(HistoryOf(RawPath)) = 1
  /\ HasElements(HistoryOf(RawPath)[1])
  /\ ElementsOf(HistoryOf(RawPath)[1]) = <<ElementPartial, JNull>>
  /\ ElementsOf(HistoryOf(CleanedPath)[1])[2] = JNull
  /\ ElementsOf(HistoryOf(CleanedPath)[1])[1].o["viewport_info"] = JObj(<<>>)
  /\ "viewport_coordinates"
       \notin DOMAIN ElementsOf(HistoryOf(CleanedPath)[1])[1].o

SameExcept(f, g, keys) ==
  /\ DOMAIN g = DOMAIN f
  /\ \A k \in DOMAIN f \ keys : g[k] = f[k]

(* b is a, but for geometry fields that may have become {} *)
SameElement(a, b) ==
  \/ b = a
  \/ /\ a.t = "object" /\ b.t = "object"
     /\ SameExcept(a.o, b.o, CoordinateKeys)
     /\ \A k \in DOMAIN a.o \cap CoordinateKeys :
          b.o[k] = a.o[k] \/ b.o[k] = JObj(<<>>)

SameList(a, b) ==
  /\ b.t = a.t
  /\ IF a.t = "array"
     THEN /\ Len(b.a) = Len(a.a)
          /\ \A j \in 1..Len(a.a) : SameElement(a.a[j], b.a[j])
     ELSE b = a

SameState(a, b) ==
  /\ b.t = a.t
  /\ IF a.t = "object"
     THEN /\ SameExcept(a.o, b.o, {"screenshot", "interacted_element"})
          /\ "screenshot" \in DOMAIN a.o =>
               b.o["screenshot"] = a.o["screenshot"]
                 \/ b.o["screenshot"] = JStr("")
          /\ "interacted_element" \in DOMAIN a.o =>
               SameList(a.o["interacted_element"], b.o["interacted_element"])
     ELSE b = a

SameEntry(a, b) ==
  /\ b.t = a.t
  /\ IF a.t = "object"
     THEN /\ SameExcept(a.o, b.o, {"state"})
          /\ "state" \in DOMAIN a.o => SameState(a.o["state"], b.o["state"])
     ELSE b = a

StructuralCopy(a, b) ==
  /\ a.t = "object" /\ b.t = "object"
  /\ SameExcept(a.o, b.o, {"history"})
  /\ "history" \in DOMAIN a.o
  /\ b.o["history"].t = a.o["history"].t
  /\ IF a.o["history"].t = "array"
     THEN /\ Len(b.o["history"].a) = Len(a.o["history"].a)
          /\ \A i \in 1..Len(a.o["history"].a) :
               SameEntry(a.o["history"].a[i], b.o["history"].a[i])
     ELSE b.o["history"] = a.o["history"]

(* C11: the document a successful clean_history writes is a structural
   copy of the one it read: the same top-level keys with the same values
   but for history, the same number of steps in the same order, every step
   with the same keys and the same values but for state, every state with
   the same keys and the same values but for a screenshot that became ""
   and for interacted_element, every interacted_element list of the same
   length and order, and every element with the same keys and the same
   values but for geometry fields that became {}. *)
C11_StructuralCopy ==
  [][(last'.op = "clean_history" /\ ~last'.raised) =>
       StructuralCopy(json_load(fs[last'.input]),
                      json_load(fs'[last'.output]))]_vars

C11_Witness ==
  /\ Cleaned(CleanedPath)
  /\ fs[RawPath].data =
       JObj([meta |-> Meta,
             history |->
               JArr(<<MkEntry(MkState(JStr("png"),
                                      JArr(<<ElementFull, JNull>>))),
                      MkEntry(MkState(Absent, Absent))>>)])
  /\ fs[CleanedPath].data # fs[RawPath].data
  /\ fs[CleanedPath].data.o["meta"] = Meta

(* C12 as stated: whatever the two paths are, and whether the call succeeds
   or raises, the file at the input path holds after clean_history what it
   held before. *)
C12_InputUntouched ==
  [][(last'.op = "clean_history" /\ last'.input \in DOMAIN fs) =>
       /\ last'.input \in DOMAIN fs'
       /\ fs'[last'.input] = fs[last'.input]]_vars

(* C12 amended: when the output path is not the input path, the file at the
   input path holds after clean_history what it held before, whether the
   call succeeds or raises. *)
C12_InputUntouchedUnlessOutput ==
  [][(last'.op = "clean_history" /\ last'.input \in DOMAIN fs
        /\ last'.output # last'.input) =>
       /\ last'.input \in DOMAIN fs'
       /\ fs'[last'.input] = fs[last'.input]]_vars

C12_Witness ==
  /\ Cleaned(CleanedPath)
  /\ last.input = RawPath
  /\ fs[RawPath].layout = "compact"
  /\ Len(HistoryOf(RawPath)) = 1
  /\ HasState(HistoryOf(RawPath)[1])
  /\ "screenshot" \in DOMAIN StateOf(HistoryOf(RawPath)[1])
  /\ StateOf(HistoryOf(RawPath)[1])["screenshot"] = JStr("png")
  /\ StateOf(HistoryOf(CleanedPath)[1])["screenshot"] = JStr("")

(* the input of the last call is no JSON text, or a document without a
   history list *)
Malformed(file) ==
  \/ ~json_parses(file)
  \/ ~IsDict(file.data)
  \/ "history" \notin DOMAIN file.data.o
  \/ file.data.o["history"].t # "array"

(* the exceptions of the code that stand for a malformed trace *)
MalformedTraceErrors == {"JSONDecodeError", "KeyError", "TypeError"}

(* C13: clean_history raises, with an error for a malformed trace, when its
   input is not parseable JSON or has no history sequence. *)
C13_MalformedRejected ==
  (last.op = "clean_history" /\ last.input \in DOMAIN fs
     /\ Malformed(fs[last.input])) =>
    last.raised /\ last.error \in MalformedTraceErrors

-----------------------------------------------------------------------------
(* Properties of the element extractor *)

Extracted == last.op = "extract_interacted_elements"

(* the file name is cleaned_history_<timestamp>.json *)
MatchesConvention(path) ==
  LET name == split_last(path, Sep)
  IN /\ Len(name) = 3
     /\ name[1] = PrefixMarker
     /\ name[2] \notin {Sep, PrefixMarker, JsonSuffix}
     /\ name[3] = JsonSuffix

(* the elements file that belongs to CanonicalPath *)
ElementsPath == <<"h", Sep, "elements_", "1", JsonSuffix>>

(* a step that has no interacted_element key, or whose list is empty or
   holds only null entries *)
ZeroElementEntry(e) ==
  /\ IsDict(e)
  /\ "state" \in DOMAIN e.o =>
       /\ IsDict(e.o["state"])
       /\ "interacted_element" \in DOMAIN e.o["state"].o =>
            /\ e.o["state"].o["interacted_element"].t = "array"
            /\ \A j \in 1..Len(e.o["state"].o["interacted_element"].a) :
                 e.o["state"].o["interacted_element"].a[j] = JNull

ZeroElements(file) ==
  /\ json_parses(file)
  /\ IsDict(file.data)
  /\ "history" \in DOMAIN file.data.o
  /\ file.data.o["history"].t = "array"
  /\ \A i \in 1..Len(file.data.o["history"].a) :
       ZeroElementEntry(file.data.o["history"].a[i])

NoElements == JObj([interacted_elements |-> JArr(<<>>)])

(* C14: extract_interacted_elements on a conventionally named trace with no
   interacted element (no steps, or only steps without an
   interacted_element key or with a list that is empty or all null) does
   not raise and writes exactly {"interacted_elements": []}. *)
C14_EmptyExtraction ==
  (Extracted /\ MatchesConvention(last.path) /\ ZeroElements(fs[last.path]))
    => /\ ~last.raised
       /\ ElementsPath \in DOMAIN fs
       /\ json_load(fs[ElementsPath]) = NoElements

C14_Witness ==
  /\ Extracted
  /\ last.path = CanonicalPath
  /\ json_load(fs[CanonicalPath]) =
       JObj([meta |-> Meta,
             history |->
               JArr(<<MkEntry(MkState(JStr(""), JArr(<<JNull, JNull>>))),
                      MkEntry(MkState(Absent, Absent))>>)])
  /\ ElementsPath \in DOMAIN fs
  /\ json_load(fs[ElementsPath]) = NoElements

(* the interacted_element list of a step, <<>> for a step without one *)
StepElements(entry) ==
  IF HasElements(entry) THEN ElementsOf(entry) ELSE <<>>

(* all the steps' lists, one after the other *)
RECURSIVE Flatten(_)
Flatten(history) ==
  IF history = <<>> THEN <<>>
  ELSE StepElements(Head(history)) \o Flatten(Tail(history))

(* the five retained fields of a record, null for a field it lacks *)
Projection(e) ==
  [t |-> "object", s |-> "",
   o |-> [k \in ProjectedKeys |->
            IF k \in DOMAIN e.o THEN e.o[k] ELSE JNull],
   a |-> <<>>]

IsRecord(e) == e.t = "object"

ExtractedHistory ==
  IF "history" \in DOMAIN fs[last.path].data.o
  THEN fs[last.path].data.o["history"].a
  ELSE <<>>

WrittenElements == json_load(fs[last.output]).o["interacted_elements"].a

(* C15: a successful extraction writes the projections of the record
   entries of all steps' lists, in step order and then list order, one per
   record entry, null and non-record entries skipped. *)
C15_EveryRecordProjected ==
  (Extracted /\ ~last.raised) =>
    LET kept == SelectSeq(Flatten(ExtractedHistory), IsRecord)
    IN WrittenElements = [i \in 1..Len(kept) |-> Projection(kept[i])]

(* C16: extract_interacted_elements raises when the file name of the
   cleaned trace is not cleaned_history_<timestamp>.json. *)
C16_NameChecked ==
  (Extracted /\ ~MatchesConvention(last.path)) => last.raised

-----------------------------------------------------------------------------
(* Properties of the code stream *)

ExtractionFails ==
  extract_interacted_elements(fs, Dirs, gen.cleaned_history_path).raised

Ran(statement) == \E i \in 1..Len(gen.done) : gen.done[i] = statement

(* C17: the prompt template is read and the provider is called only after
   the extraction has run to its end and the elements file is there; when
   the extraction raises, the call ends with that exception, no request
   made, no fragment yielded, the template not read. *)
C17_ExtractionFirst ==
  /\ (Ran("read_template") \/ gen.requests > 0) =>
       /\ Ran("extract")
       /\ elements_file_path(gen.cleaned_history_path) \in DOMAIN fs
  /\ ExtractionFails =>
       /\ gen.status # "done"
       /\ gen.status = "raised" =>
            gen.error = extract_interacted_elements(
                          fs, Dirs, gen.cleaned_history_path).error
       /\ gen.requests = 0
       /\ gen.yielded = <<>>
       /\ ~Ran("read_template")

C17_Witness ==
  /\ gen.status = "done"
  /\ gen.cleaned_history_path = CanonicalPath
  /\ ElementsPath \in DOMAIN fs
  /\ gen.requests = 1
  /\ gen.yielded = <<<<"a">>, <<"b", "c">>>>

RECURSIVE Concat(_)
Concat(fragments) ==
  IF fragments = <<>> THEN <<>>
  ELSE Head(fragments) \o Concat(Tail(fragments))

(* C18: what has been yielded is, fragment by fragment, what the provider's
   stream has delivered so far, and when the generator ends it is the whole
   stream, its concatenation being the provider's full response. *)
C18_PassThrough ==
  /\ gen.yielded = SubSeq(gen.provider.fragments, 1, gen.received)
  /\ Len(gen.yielded) = gen.chunk_count
  /\ gen.status = "done" =>
       /\ gen.yielded = gen.provider.fragments
       /\ Concat(gen.yielded) = Concat(gen.provider.fragments)

C18_Witness ==
  /\ gen.status = "done"
  /\ gen.provider.fragments = <<<<"b", "c">>, <<>>>>
  /\ gen.yielded = <<<<"b", "c">>, <<>>>>

(* the exception the call meets first *)
FirstFailure ==
  LET r == extract_interacted_elements(fs, Dirs, gen.cleaned_history_path)
  IN IF r.raised THEN r.error
     ELSE IF gen.prompt_template_path \notin DOMAIN fs
     THEN "FileNotFoundError"
     ELSE IF gen.llm_error # "" THEN gen.llm_error
     ELSE gen.provider.error

(* C19: a failure ends the call with the exception that was met, at most
   one request having been made, and nothing happens after it: no fragment
   is yielded, no request is made, no statement runs. *)
C19_FailureAborts ==
  [][/\ gen.status = "running"
     /\ gen'.requests <= 1
     /\ gen'.status = "raised" =>
          /\ gen'.error = FirstFailure
          /\ gen'.error # ""
          /\ gen'.yielded = gen.yielded
          /\ gen'.requests = gen.requests]_vars

C19_Witness ==
  /\ gen.status = "raised"
  /\ gen.error = "APIError"
  /\ gen.requests = 1
  /\ gen.yielded = <<<<"a">>>>

-----------------------------------------------------------------------------
(* Properties of the fence stripping *)

(* C20: a text that either variant has stripped is left as it is by that
   variant: strip(strip(t)) = strip(t). *)
C20_StripIdempotent ==
  /\ last.op = "display_code" => display_code(code) = code
  /\ last.op = "download_code" => download_code(code) = code

(* a line that, trimmed, starts with a language fence or is the bare fence *)
IsFenceLine(line) ==
  \/ /\ strip(line) # <<>>
     /\ Head(strip(line)) \in {FencePython, FenceTypescript, FenceJava}
  \/ strip(line) = <<BareFence>>

(* C21: after the fence stripping of the display or of the download variant
   no line of the text is a fence line. *)
C21_NoFenceLines ==
  last.op \in {"display_code", "download_code"} =>
    \A i \in 1..Len(split_lines(code)) : ~IsFenceLine(split_lines(code)[i])

-----------------------------------------------------------------------------
(* Properties of update_from_ui beside a reader *)

(* what get_config(key) returned before the call in flight began, and what
   it returns once every entry of the mapping has been written *)
ValueBefore(key) == get_config(upd.before.rc, upd.before.env, key, None)

ValueAfter(key) ==
  LET st == update_from_ui(upd.before, upd.settings)
  IN get_config(st.rc, st.env, key, None)

UpdatedKeys ==
  {upd.settings[i][1] : i \in {j \in 1..Len(upd.settings) :
                                 upd.settings[j][2] # None}}

(* the reader has read the new value of one key of the mapping and the old
   value of another *)
PartialUpdateSeen ==
  \E k1, k2 \in UpdatedKeys \cap DOMAIN upd.seen :
    /\ k1 # k2
    /\ upd.seen[k1] = ValueAfter(k1) /\ upd.seen[k1] # ValueBefore(k1)
    /\ upd.seen[k2] = ValueBefore(k2) /\ upd.seen[k2] # ValueAfter(k2)

(* C22: each key holds the value of the last write to it once no call is in
   flight, and a reader that is the caller itself never reads the new value
   of one key and the old value of another; a reader in a second thread
   can (the witness). *)
C22_NoTransaction ==
  /\ ~upd.running =>
       \A k \in DOMAIN written :
         /\ k \in DOMAIN RuntimeOf(App) /\ RuntimeOf(App)[k] = written[k]
         /\ k \in DOMAIN environ /\ environ[k] = written[k]
  /\ ~upd.concurrent => ~PartialUpdateSeen

C22_Witness ==
  /\ upd.concurrent
  /\ upd.running
  /\ PartialUpdateSeen

-----------------------------------------------------------------------------
(* Properties of the resolver beside the other holders *)

(* C25: for every key written by set_config, the environment variable read
   directly equals the value in the runtime overlay, at every later point
   and whatever operation ran in between. *)
C25_MirrorHolds ==
  \A k \in DOMAIN written :
    /\ k \in DOMAIN environ
    /\ environ[k] = str(heap[_instance]._runtime_config[k])

-----------------------------------------------------------------------------
(* Properties of execute_task *)

(* C23: an execute_task that fails at the setup of the history or of the
   timestamp folder, in agent.run or at the saving of the history raises
   BrowserTaskExecutionError. *)
C23_OnlyTaskError ==
  /\ task.pc = "done"
  /\ task.outcome = "raised"
  /\ task.failed_at \in {"history_folder", "timestamp_folder", "run", "save"}
  => task.error = BrowserTaskExecutionError

(* C24: after agent.run has failed with an exception that is no OSError,
   the timestamp folder of the run no longer exists. *)
C24_FolderRemoved ==
  /\ task.pc = "done"
  /\ task.failed_at = "run"
  /\ task.error = BrowserTaskExecutionError
  => task.timestamp \notin task.disk.folders

(* C28: when execute_task has returned or raised, the browser that the
   constructor of the runner opened is closed. *)
C28_BrowserClosed ==
  task.pc = "done" => task.browser = "closed"

(* C29: a successful execute_task returns the path
   <history>/<timestamp>/history_<timestamp>.json of the timestamp it
   returns, that file exists, and it lies in the folder of the run. *)
C29_PairConsistent ==
  task.pc = "done" /\ task.outcome = "returned" =>
    /\ task.result.history_path =
         <<task.result.timestamp, HistoryKind, task.result.timestamp>>
    /\ task.result.history_path \in task.disk.files
    /\ task.result.timestamp \in task.disk.folders

-----------------------------------------------------------------------------
(* Properties of the provider selection *)

(* C26: the API key the user has entered for the provider chosen is the one
   CodeGenerator.get_llm passes to the provider. *)
C26_UiKeyUsed ==
  last.op = "CodeGenerator.get_llm" /\ Truthy(ui.api_key) =>
    last.api_key = ui.api_key

(* C27: for the provider committed, the two get_llm methods build the same
   strategy with the same credential key. *)
C27_SameStrategy ==
  last.op \in {"BrowserTaskRunner.get_llm", "CodeGenerator.get_llm"} =>
    LET p == provider_lower(get_config_plain(heap[_instance]._runtime_config,
                                             environ, MODEL_PROVIDER, Openai))
        runner == BrowserTaskRunner_get_llm(p)
        generator == CodeGenerator_get_llm(p)
    IN /\ p \in Providers
       /\ runner.strategy = generator.strategy
       /\ runner.credential_key = generator.credential_key

-----------------------------------------------------------------------------
(* Properties of the page *)

(* C30: at the end of a script run that a press of Go triggered, the task
   input is enabled or a Start New Task button has been rendered. *)
C30_NeverStuck ==
  ui.pc = "idle" /\ ui.trigger = "go" =>
    ui.input_enabled \/ ui.new_task_button

====
